---- MODULE Spec2Model ----
(***************************************************************************)
(* A model of the synchronisation core of telegram-bot-api's td library:   *)
(* the video note cache with its message registry and speech recognition   *)
(* (td/telegram/VideoNotesManager.cpp) and the payments queries            *)
(* (td/telegram/Payments.cpp).                                             *)
(*                                                                         *)
(* Every handler of the code is an operator that computes, from the        *)
(* current state, the effect of running the whole handler: the new values  *)
(* of the manager's members, the promise resolutions, and the sequence of  *)
(* calls it makes to its collaborators (in program order).  The actions    *)
(* apply one handler each.                                                 *)
(***************************************************************************)
EXTENDS Integers, Sequences, FiniteSets, TLC

\* ------------------------------------------------------------- bounds
MaxFileId == 2       \* valid FileIds are 1..MaxFileId, FileId() is 0
MaxMsg == 2          \* server messages are 1..MaxMsg
MaxSpeechFileId == 1 \* the video notes whose speech is recognized are 1..MaxSpeechFileId
MaxPromises == 2     \* promises handed to the managers in one run

FileIds == 1..MaxFileId
InvalidFileId == 0
Msgs == 1..MaxMsg
PromiseIds == 1..MaxPromises
Texts == {"a", "ab"}
TranscriptionIds == 1..MaxFileId

\* ------------------------------------------------------------- values
\* Status classes carried by a rejected promise.
RemoteError == "RemoteError"
ShutdownError == "ShutdownError"
ValidationError == "ValidationError"

Value == [res |-> "value", class |-> "none"]
Error(class) == [res |-> "error", class |-> class]

\* unique_ptr<TranscriptionInfo>() == nullptr
NoInfo == [phase |-> "Null", text |-> "", transcription_id |-> 0, waiters |-> {}]
\* make_unique<TranscriptionInfo>()
NewInfo == [phase |-> "None", text |-> "", transcription_id |-> 0, waiters |-> {}]
FinalInfo(text, tid) ==
  [phase |-> "Final", text |-> text, transcription_id |-> tid, waiters |-> {}]

\* A null unique_ptr<VideoNote> (an entry operator[] has created and nothing filled).
NullVideoNote ==
  [is_null |-> TRUE, file_id |-> InvalidFileId, duration |-> 0, dimensions |-> 0,
   waveform |-> "", minithumbnail |-> "", thumbnail |-> InvalidFileId,
   transcription_info |-> NoInfo]

VideoNote(file_id, duration, dimensions, waveform, minithumbnail, thumbnail, info) ==
  [is_null |-> FALSE, file_id |-> file_id, duration |-> duration,
   dimensions |-> dimensions, waveform |-> waveform, minithumbnail |-> minithumbnail,
   thumbnail |-> thumbnail, transcription_info |-> info]

\* The video notes the callers hand to on_get_video_note.
Candidates ==
  { VideoNote(f, 5, 240, "w1", "m1", 11, i) : f \in 0..MaxFileId, i \in {NoInfo, FinalInfo("a", 1)} }
  \cup { VideoNote(f, 9, 240, "w1", "m1", 11, NoInfo) : f \in FileIds }
  \cup { VideoNote(f, 5, 360, "w2", "m2", 12, NoInfo) : f \in FileIds }

\* ------------------------------------------------------------- state
VARIABLES
  video_notes_,           \* FileId -> VideoNote (WaitFreeHashMap<FileId, unique_ptr<VideoNote>>)
  video_note_messages_,   \* FileId -> set of FullMessageId
  message_video_notes_,   \* FullMessageId -> FileId
  close_flag,             \* G()->close_flag()
  destroyed,              \* ~VideoNotesManager has run
  aborted,                \* a CHECK has failed
  promises,               \* promise -> the resolutions it has received, in order
  next_promise,           \* the next promise a caller hands in
  queries,                \* promise -> the Query that owns it
  inflight,               \* FileId -> transcription requests whose first reply is due
  subscriptions,          \* open subscriptions to transcribed audio updates
  events,                 \* the collaborator calls of the last handler, in order
  results,                \* promise -> the object its set_value carried
  is_bot,                 \* td_->auth_manager_->is_bot()
  unix_time,              \* G()->unix_time()
  notification_settings   \* the DialogNotificationSettings last built

vars == <<video_notes_, video_note_messages_, message_video_notes_, close_flag,
          destroyed, aborted, promises, next_promise, queries, inflight,
          subscriptions, events, results, is_bot, unix_time, notification_settings>>

Lookup(map, key, default) == IF key \in DOMAIN map THEN map[key] ELSE default
Put(map, key, val) == [k \in DOMAIN map \cup {key} |-> IF k = key THEN val ELSE map[k]]
Drop(map, key) == [k \in DOMAIN map \ {key} |-> map[k]]

\* video_notes_.get_pointer(file_id): nullptr for a missing key and for a null entry
get_video_note(file_id) == Lookup(video_notes_, file_id, NullVideoNote)

\* A call to a collaborator: what is called and on which ids.
Event(ev, targets) == [ev |-> ev, targets |-> targets, into |-> 0]
\* file_manager_->merge(new_id, old_id)
MergeEvent(new_id, old_id) == [ev |-> "merge", targets |-> {old_id}, into |-> new_id]

\* ------------------------------------------------------------- notification settings
\* std::numeric_limits<int32>::max() and min()
INT32_MAX == 2147483647
INT32_MIN == -INT32_MAX - 1
MAX_PRECISE_MUTE_FOR == 366 * 86400

\* The result of an int32 operation: its value, or signed overflow, which is undefined
\* behaviour.
Int32(value) == [value |-> value, overflow |-> FALSE]
Overflow == [value |-> 0, overflow |-> TRUE]

\* int32 a + b and a - b
Add32(a, b) ==
  IF (b > 0 /\ a > INT32_MAX - b) \/ (b < 0 /\ a < INT32_MIN - b) THEN Overflow
  ELSE Int32(a + b)
Sub32(a, b) ==
  IF (b < 0 /\ a > INT32_MAX + b) \/ (b > 0 /\ a < INT32_MIN + b) THEN Overflow
  ELSE Int32(a - b)

\* What a build may leave where a signed overflow happened.
UndefinedInt32 == {INT32_MIN, -1, 0, 1, INT32_MAX}

\* Mutation of get_mute_until: only the 366 days are compared.
get_mute_until_unguarded(mute_for) ==
  IF mute_for <= 0 THEN Int32(0)
  ELSE IF mute_for > MAX_PRECISE_MUTE_FOR THEN Int32(INT32_MAX)
  ELSE Add32(mute_for, unix_time)

get_mute_until(mute_for) ==
  IF mute_for <= 0 THEN Int32(0)
  ELSE LET current_time == unix_time
           room == Sub32(INT32_MAX, current_time)
       IN IF mute_for > MAX_PRECISE_MUTE_FOR THEN Int32(INT32_MAX)
          ELSE IF room.overflow THEN Overflow
          ELSE IF mute_for >= room.value THEN Int32(INT32_MAX)
          ELSE Add32(mute_for, current_time)

\* DialogNotificationSettings: the mute fields.
DialogNotificationSettings(use_default_mute_until, mute_until) ==
  [use_default_mute_until |-> use_default_mute_until, mute_until |-> mute_until]
DefaultSettings == DialogNotificationSettings(TRUE, 0)

\* get_dialog_notification_settings(td_api::chatNotificationSettings): the settings it
\* may return.
get_dialog_notification_settings(use_default_mute_for, mute_for) ==
  LET mute_until == IF use_default_mute_for THEN Int32(0) ELSE get_mute_until(mute_for)
  IN {DialogNotificationSettings(use_default_mute_for, v) :
        v \in IF mute_until.overflow THEN UndefinedInt32 ELSE {mute_until.value}}

\* ------------------------------------------------------------- amounts
\* An int64 amount is held in two limbs, amount = hi * LimbBase + lo with
\* 0 <= lo < LimbBase, so that 2^40 and 2^41 are exact.
LimbBase == 1048576
Int64(hi, lo) == [hi |-> hi, lo |-> lo]
Zero == Int64(0, 0)
Less(a, b) == a.hi < b.hi \/ (a.hi = b.hi /\ a.lo < b.lo)
Negate(a) == IF a.lo = 0 THEN Int64(-a.hi, 0) ELSE Int64(-a.hi - 1, LimbBase - a.lo)

\* check_currency_amount: -MAX_AMOUNT <= amount && amount <= MAX_AMOUNT
MAX_AMOUNT == Int64(953674, 331775)
check_currency_amount(amount) == ~Less(amount, Negate(MAX_AMOUNT)) /\ ~Less(MAX_AMOUNT, amount)

\* (amount < 0 ? -1 : 1) * (static_cast<int64>(1) << 40)
SignedSentinel(amount) == IF Less(amount, Zero) THEN Int64(-LimbBase, 0) ELSE Int64(LimbBase, 0)

\* Mutation of convert_labeled_price: the sentinel is positive whatever the amount.
convert_labeled_price_unsigned(amount) ==
  IF ~check_currency_amount(amount) THEN Int64(LimbBase, 0) ELSE amount

\* convert_labeled_price, on the amount of the labeled price
convert_labeled_price(amount) ==
  IF ~check_currency_amount(amount) THEN SignedSentinel(amount) ELSE amount

\* telegram_api::invoice, the amounts in it
Invoice(prices, max_tip_amount, suggested_tip_amounts) ==
  [prices |-> prices, max_tip_amount |-> max_tip_amount,
   suggested_tip_amounts |-> suggested_tip_amounts]
EmptyInvoice == Invoice(<<>>, Zero, <<>>)

is_valid_tip(amount) == ~(Less(amount, Zero) \/ ~check_currency_amount(amount))

\* Mutation of convert_invoice: the maximum tip amount is taken as received.
convert_invoice_keeps_max_tip(invoice) ==
  LET kept == SelectSeq(invoice.suggested_tip_amounts, is_valid_tip)
  IN Invoice([i \in DOMAIN invoice.prices |-> convert_labeled_price(invoice.prices[i])],
             invoice.max_tip_amount,
             IF Len(kept) > 4 THEN SubSeq(kept, 1, 4) ELSE kept)

\* convert_invoice
convert_invoice(invoice) ==
  LET kept == SelectSeq(invoice.suggested_tip_amounts, is_valid_tip)
  IN Invoice([i \in DOMAIN invoice.prices |-> convert_labeled_price(invoice.prices[i])],
             IF Less(invoice.max_tip_amount, Zero)
                  \/ ~check_currency_amount(invoice.max_tip_amount)
               THEN Zero ELSE invoice.max_tip_amount,
             IF Len(kept) > 4 THEN SubSeq(kept, 1, 4) ELSE kept)

\* The objects a payments promise is fulfilled with.
Result(kind, invoice, tip_amount, success, url) ==
  [kind |-> kind, invoice |-> invoice, tip_amount |-> tip_amount, success |-> success,
   url |-> url]
NoResult == Result("none", EmptyInvoice, Zero, FALSE, "")

\* What a handler leaves behind; a handler starts from Same and changes fields.
Same ==
  [vn |-> video_notes_, vnm |-> video_note_messages_, mvn |-> message_video_notes_,
   pr |-> promises, q |-> queries, ev |-> <<>>, ab |-> FALSE, ret |-> InvalidFileId,
   res |-> results]

Abort(eff) == [eff EXCEPT !.ab = TRUE]

\* promise.set_value / set_promises
set_promises(pr, ps) ==
  [p \in DOMAIN pr |-> IF p \in ps THEN Append(pr[p], Value) ELSE pr[p]]
\* promise.set_error / fail_promises
fail_promises(pr, ps, class) ==
  [p \in DOMAIN pr |-> IF p \in ps THEN Append(pr[p], Error(class)) ELSE pr[p]]

\* ------------------------------------------------------------- messages
\* FullMessageIds: 1..MaxMsg are sent server messages; one scheduled and one local
\* (yet unsent) message stand for the classes register_video_note skips.
ScheduledMsg == MaxMsg + 1
LocalMsg == MaxMsg + 2
AllMsgs == 1..(MaxMsg + 2)
is_scheduled(m) == m = ScheduledMsg
is_server(m) == m \in Msgs
is_valid(file_id) == file_id > 0

\* ------------------------------------------------------------- TranscriptionInfo
\* TranscriptionInfo::update_from(old_info, new_info): the info kept and whether it
\* has just become a completed transcription.
update_from(old_info, new_info) ==
  IF new_info.phase # "Final" THEN [info |-> old_info, ret |-> FALSE]
  ELSE IF old_info.phase = "Null" THEN [info |-> new_info, ret |-> TRUE]
  ELSE IF old_info.phase \in {"Final", "Requested", "Partial"} \/ old_info.waiters # {}
       THEN [info |-> old_info, ret |-> FALSE]
  ELSE [info |-> new_info, ret |-> TRUE]

\* TranscriptionInfo::copy_if_transcribed(info)
copy_if_transcribed(info) ==
  IF info.phase = "Final" THEN FinalInfo(info.text, info.transcription_id) ELSE NoInfo

\* TranscriptionInfo::recognize_speech: the info afterwards, whether a request was
\* transmitted, and the promises fulfilled at once.
TI_recognize_speech(info, promise) ==
  IF info.phase = "Final"
    THEN [info |-> info, ret |-> FALSE, done |-> {promise}]
  ELSE IF info.phase \in {"Requested", "Partial"}
    THEN [info |-> [info EXCEPT !.waiters = @ \cup {promise}], ret |-> FALSE, done |-> {}]
  ELSE [info |-> [info EXCEPT !.phase = "Requested", !.waiters = @ \cup {promise}],
        ret |-> TRUE, done |-> {}]

\* TranscriptionInfo::on_final_transcription
on_final_transcription(info, text, transcription_id) ==
  [info |-> FinalInfo(text, transcription_id), promises |-> info.waiters]

\* TranscriptionInfo::on_partial_transcription
on_partial_transcription(info, text, transcription_id) ==
  [info |-> [info EXCEPT !.phase = "Partial", !.text = text,
                         !.transcription_id = transcription_id],
   is_changed |-> info.text # text]

\* TranscriptionInfo::on_failed_transcription
on_failed_transcription(info) ==
  [info |-> [phase |-> "Failed", text |-> "", transcription_id |-> 0, waiters |-> {}],
   promises |-> info.waiters]

\* ------------------------------------------------------------- notifications
\* on_external_update_message_content for every message of the video note
on_video_note_transcription_updated(file_id) ==
  Event("changed", Lookup(video_note_messages_, file_id, {}))

\* Mutation of on_video_note_transcription_completed: every registered message is
\* told, whatever its video note.
on_video_note_transcription_completed_to_all(file_id) ==
  Event("finalized", DOMAIN message_video_notes_)

\* Mutation of on_video_note_transcription_completed: the messages are told of an
\* external change, as on_video_note_transcription_updated tells them.
on_video_note_transcription_completed_as_updated(file_id) ==
  Event("changed", Lookup(video_note_messages_, file_id, {}))

\* on_update_message_content for every message of the video note
on_video_note_transcription_completed(file_id) ==
  Event("finalized", Lookup(video_note_messages_, file_id, {}))

\* ------------------------------------------------------------- the cache
\* Mutation of replace_fields: only a changed duration counts as changed info.
replace_fields_by_duration(v, new_video_note) ==
  LET info_changed == v.duration # new_video_note.duration
  IN [v EXCEPT
        !.duration = IF info_changed THEN new_video_note.duration ELSE @,
        !.dimensions = IF info_changed THEN new_video_note.dimensions ELSE @,
        !.waveform = IF info_changed THEN new_video_note.waveform ELSE @,
        !.minithumbnail = IF @ # new_video_note.minithumbnail
                            THEN new_video_note.minithumbnail ELSE @,
        !.thumbnail = IF @ # new_video_note.thumbnail
                        THEN new_video_note.thumbnail ELSE @]

\* The replace branch of on_get_video_note, transcription aside.
replace_fields(v, new_video_note) ==
  LET info_changed == \/ v.duration # new_video_note.duration
                      \/ v.dimensions # new_video_note.dimensions
                      \/ v.waveform # new_video_note.waveform
  IN [v EXCEPT
        !.duration = IF info_changed THEN new_video_note.duration ELSE @,
        !.dimensions = IF info_changed THEN new_video_note.dimensions ELSE @,
        !.waveform = IF info_changed THEN new_video_note.waveform ELSE @,
        !.minithumbnail = IF @ # new_video_note.minithumbnail
                            THEN new_video_note.minithumbnail ELSE @,
        !.thumbnail = IF @ # new_video_note.thumbnail
                        THEN new_video_note.thumbnail ELSE @]

\* Mutation of on_get_video_note: with replace the new video note is moved in whole, its
\* transcription (or lack of one) included.
on_get_video_note_moves_in(new_video_note, replace) ==
  LET file_id == new_video_note.file_id
      v == get_video_note(file_id)
  IN IF ~is_valid(file_id) THEN Abort(Same)
     ELSE IF v.is_null \/ replace
       THEN [Same EXCEPT !.vn = Put(video_notes_, file_id, new_video_note),
                         !.ret = file_id]
     ELSE [Same EXCEPT !.ret = file_id]

\* Mutation of on_get_video_note: the replace flag is not consulted.
on_get_video_note_always_replaces(new_video_note, replace) ==
  LET file_id == new_video_note.file_id
      v == get_video_note(file_id)
  IN IF ~is_valid(file_id) THEN Abort(Same)
     ELSE IF v.is_null
       THEN [Same EXCEPT !.vn = Put(video_notes_, file_id, new_video_note),
                         !.ret = file_id]
     ELSE LET u == update_from(v.transcription_info, new_video_note.transcription_info)
              w == [replace_fields(v, new_video_note) EXCEPT !.transcription_info = u.info]
          IN [Same EXCEPT !.vn = Put(video_notes_, file_id, w),
                          !.ev = IF u.ret
                                   THEN <<on_video_note_transcription_completed(file_id)>>
                                   ELSE <<>>,
                          !.ret = file_id]

\* Mutation of on_get_video_note: with replace the messages are told of a completed
\* transcription whatever update_from returns.
on_get_video_note_always_completes(new_video_note, replace) ==
  LET file_id == new_video_note.file_id
      v == get_video_note(file_id)
  IN IF ~is_valid(file_id) THEN Abort(Same)
     ELSE IF v.is_null
       THEN [Same EXCEPT !.vn = Put(video_notes_, file_id, new_video_note),
                         !.ret = file_id]
     ELSE IF replace
       THEN LET u == update_from(v.transcription_info, new_video_note.transcription_info)
                w == [replace_fields(v, new_video_note) EXCEPT !.transcription_info = u.info]
            IN [Same EXCEPT !.vn = Put(video_notes_, file_id, w),
                            !.ev = <<on_video_note_transcription_completed(file_id)>>,
                            !.ret = file_id]
     ELSE [Same EXCEPT !.ret = file_id]

\* Mutation of on_get_video_note: with replace the TranscriptionInfo is taken from the
\* new video note like every other field.
on_get_video_note_takes_info(new_video_note, replace) ==
  LET file_id == new_video_note.file_id
      v == get_video_note(file_id)
  IN IF ~is_valid(file_id) THEN Abort(Same)
     ELSE IF v.is_null
       THEN [Same EXCEPT !.vn = Put(video_notes_, file_id, new_video_note),
                         !.ret = file_id]
     ELSE IF replace
       THEN LET w == [replace_fields(v, new_video_note)
                        EXCEPT !.transcription_info = new_video_note.transcription_info]
            IN [Same EXCEPT !.vn = Put(video_notes_, file_id, w),
                            !.ret = file_id]
     ELSE [Same EXCEPT !.ret = file_id]

on_get_video_note(new_video_note, replace) ==
  LET file_id == new_video_note.file_id
      v == get_video_note(file_id)
  IN IF ~is_valid(file_id) THEN Abort(Same)
     ELSE IF v.is_null
       THEN [Same EXCEPT !.vn = Put(video_notes_, file_id, new_video_note),
                         !.ret = file_id]
     ELSE IF replace
       THEN LET u == update_from(v.transcription_info, new_video_note.transcription_info)
                w == [replace_fields(v, new_video_note) EXCEPT !.transcription_info = u.info]
            IN [Same EXCEPT !.vn = Put(video_notes_, file_id, w),
                            !.ev = IF u.ret
                                     THEN <<on_video_note_transcription_completed(file_id)>>
                                     ELSE <<>>,
                            !.ret = file_id]
     ELSE [Same EXCEPT !.ret = file_id]

\* The widest (and highest) video note create_video_note keeps the dimensions of.
MaxVideoNoteSide == 640

\* create_video_note: the video note is built from the fields received and handed to
\* on_get_video_note.  Dimensions() is 0.
create_video_note(file_id, minithumbnail, thumbnail, duration, width, height, waveform, replace) ==
  on_get_video_note(
    VideoNote(file_id,
              IF duration > 0 THEN duration ELSE 0,
              IF width = height /\ width <= MaxVideoNoteSide THEN width ELSE 0,
              waveform,
              IF ~is_bot THEN minithumbnail ELSE "",
              thumbnail,
              NoInfo),
    replace)

\* FileManager::dup_file_id: a new FileId for the same file
dup_file_id(file_id) == IF is_valid(file_id) THEN file_id + 10 ELSE InvalidFileId

delete_video_note_thumbnail(file_id) ==
  LET v == get_video_note(file_id)
  IN IF v.is_null
       THEN Abort([Same EXCEPT !.vn = Put(video_notes_, file_id, NullVideoNote)])
       ELSE [Same EXCEPT !.vn = Put(video_notes_, file_id,
                                    [v EXCEPT !.thumbnail = InvalidFileId])]

\* Mutation of dup_video_note: the TranscriptionInfo is copied whatever it holds.
dup_video_note_copies_info(new_id, old_id) ==
  LET old_video_note == get_video_note(old_id)
      new_video_note == get_video_note(new_id)
  IN IF old_video_note.is_null THEN Abort(Same)
     ELSE IF ~new_video_note.is_null
       THEN Abort(Same)
     ELSE [Same EXCEPT
             !.vn = Put(video_notes_, new_id,
                        VideoNote(new_id, old_video_note.duration,
                                  old_video_note.dimensions, old_video_note.waveform,
                                  old_video_note.minithumbnail,
                                  dup_file_id(old_video_note.thumbnail),
                                  old_video_note.transcription_info)),
             !.ev = <<Event("dup_file_id", {old_video_note.thumbnail})>>,
             !.ret = new_id]

\* Mutation of dup_video_note: the new video note keeps the file_id of the old one.
dup_video_note_keeps_old_id(new_id, old_id) ==
  LET old_video_note == get_video_note(old_id)
      new_video_note == get_video_note(new_id)
  IN IF old_video_note.is_null THEN Abort(Same)
     ELSE IF ~new_video_note.is_null
       THEN Abort(Same)
     ELSE [Same EXCEPT
             !.vn = Put(video_notes_, new_id,
                        VideoNote(old_id, old_video_note.duration,
                                  old_video_note.dimensions, old_video_note.waveform,
                                  old_video_note.minithumbnail,
                                  dup_file_id(old_video_note.thumbnail),
                                  copy_if_transcribed(old_video_note.transcription_info))),
             !.ev = <<Event("dup_file_id", {old_video_note.thumbnail})>>,
             !.ret = new_id]

\* Mutation of dup_video_note: without CHECK(new_video_note == nullptr).
dup_video_note_overwrites(new_id, old_id) ==
  LET old_video_note == get_video_note(old_id)
  IN IF old_video_note.is_null THEN Abort(Same)
     ELSE [Same EXCEPT
             !.vn = Put(video_notes_, new_id,
                        VideoNote(new_id, old_video_note.duration,
                                  old_video_note.dimensions, old_video_note.waveform,
                                  old_video_note.minithumbnail,
                                  dup_file_id(old_video_note.thumbnail),
                                  copy_if_transcribed(old_video_note.transcription_info))),
             !.ev = <<Event("dup_file_id", {old_video_note.thumbnail})>>,
             !.ret = new_id]

\* Mutation of dup_video_note: the new video note shares the thumbnail of the old one.
dup_video_note_aliases_thumbnail(new_id, old_id) ==
  LET old_video_note == get_video_note(old_id)
      new_video_note == get_video_note(new_id)
  IN IF old_video_note.is_null THEN Abort(Same)
     ELSE IF ~new_video_note.is_null
       THEN Abort(Same)
     ELSE [Same EXCEPT
             !.vn = Put(video_notes_, new_id,
                        VideoNote(new_id, old_video_note.duration,
                                  old_video_note.dimensions, old_video_note.waveform,
                                  old_video_note.minithumbnail,
                                  old_video_note.thumbnail,
                                  copy_if_transcribed(old_video_note.transcription_info))),
             !.ret = new_id]

dup_video_note(new_id, old_id) ==
  LET old_video_note == get_video_note(old_id)
      new_video_note == get_video_note(new_id)
  IN IF old_video_note.is_null THEN Abort(Same)
     ELSE IF ~new_video_note.is_null
       THEN Abort(Same)
     ELSE [Same EXCEPT
             !.vn = Put(video_notes_, new_id,
                        VideoNote(new_id, old_video_note.duration,
                                  old_video_note.dimensions, old_video_note.waveform,
                                  old_video_note.minithumbnail,
                                  dup_file_id(old_video_note.thumbnail),
                                  copy_if_transcribed(old_video_note.transcription_info))),
             !.ev = <<Event("dup_file_id", {old_video_note.thumbnail})>>,
             !.ret = new_id]

\* Mutation of merge_video_notes: the old video note is erased once merged.
merge_video_notes_erases_old(new_id, old_id) ==
  IF ~(is_valid(old_id) /\ is_valid(new_id)) THEN Abort(Same)
  ELSE IF new_id = old_id THEN Abort(Same)
  ELSE IF get_video_note(old_id).is_null THEN Abort(Same)
  ELSE LET d == IF get_video_note(new_id).is_null
                  THEN dup_video_note(new_id, old_id)
                  ELSE Same
       IN [d EXCEPT !.vn = Drop(@, old_id),
                    !.ev = Append(@, MergeEvent(new_id, old_id)), !.ret = InvalidFileId]

merge_video_notes(new_id, old_id) ==
  IF ~(is_valid(old_id) /\ is_valid(new_id)) THEN Abort(Same)
  ELSE IF new_id = old_id THEN Abort(Same)
  ELSE IF get_video_note(old_id).is_null THEN Abort(Same)
  ELSE LET d == IF get_video_note(new_id).is_null
                  THEN dup_video_note(new_id, old_id)
                  ELSE Same
       IN [d EXCEPT !.ev = Append(@, MergeEvent(new_id, old_id)), !.ret = InvalidFileId]

\* ------------------------------------------------------------- the registry
\* Mutation of register_video_note: the messages of a bot are registered too.
register_video_note_for_bots(video_note_file_id, full_message_id) ==
  IF is_scheduled(full_message_id) \/ ~is_server(full_message_id) THEN Same
  ELSE IF ~is_valid(video_note_file_id) THEN Abort(Same)
  ELSE LET message_ids == Lookup(video_note_messages_, video_note_file_id, {})
           inserted == Put(video_note_messages_, video_note_file_id,
                           message_ids \cup {full_message_id})
       IN IF full_message_id \in message_ids
            THEN Abort([Same EXCEPT !.vnm = inserted])
          ELSE IF full_message_id \in DOMAIN message_video_notes_
            THEN Abort([Same EXCEPT !.vnm = inserted])
          ELSE [Same EXCEPT
                  !.vnm = inserted,
                  !.mvn = Put(message_video_notes_, full_message_id, video_note_file_id)]

\* Mutation of register_video_note: without CHECK(video_note_file_id.is_valid()).
register_video_note_any_handle(video_note_file_id, full_message_id) ==
  IF is_scheduled(full_message_id) \/ ~is_server(full_message_id) \/ is_bot THEN Same
  ELSE LET message_ids == Lookup(video_note_messages_, video_note_file_id, {})
           inserted == Put(video_note_messages_, video_note_file_id,
                           message_ids \cup {full_message_id})
       IN IF full_message_id \in message_ids
            THEN Abort([Same EXCEPT !.vnm = inserted])
          ELSE IF full_message_id \in DOMAIN message_video_notes_
            THEN Abort([Same EXCEPT !.vnm = inserted])
          ELSE [Same EXCEPT
                  !.vnm = inserted,
                  !.mvn = Put(message_video_notes_, full_message_id, video_note_file_id)]

\* Mutation of register_video_note: the emplace into message_video_notes_ is not
\* checked, so a message that has a video note is given a second one.
register_video_note_second_unchecked(video_note_file_id, full_message_id) ==
  IF is_scheduled(full_message_id) \/ ~is_server(full_message_id) \/ is_bot THEN Same
  ELSE IF ~is_valid(video_note_file_id) THEN Abort(Same)
  ELSE LET message_ids == Lookup(video_note_messages_, video_note_file_id, {})
           inserted == Put(video_note_messages_, video_note_file_id,
                           message_ids \cup {full_message_id})
       IN IF full_message_id \in message_ids
            THEN Abort([Same EXCEPT !.vnm = inserted])
          ELSE [Same EXCEPT
                  !.vnm = inserted,
                  !.mvn = IF full_message_id \in DOMAIN message_video_notes_
                            THEN message_video_notes_
                            ELSE Put(message_video_notes_, full_message_id,
                                     video_note_file_id)]

\* Mutation of register_video_note: the results of the two insertions are not checked.
register_video_note_unchecked(video_note_file_id, full_message_id) ==
  IF is_scheduled(full_message_id) \/ ~is_server(full_message_id) \/ is_bot THEN Same
  ELSE IF ~is_valid(video_note_file_id) THEN Abort(Same)
  ELSE LET message_ids == Lookup(video_note_messages_, video_note_file_id, {})
           inserted == Put(video_note_messages_, video_note_file_id,
                           message_ids \cup {full_message_id})
       IN [Same EXCEPT
             !.vnm = inserted,
             !.mvn = IF full_message_id \in DOMAIN message_video_notes_
                       THEN message_video_notes_
                       ELSE Put(message_video_notes_, full_message_id, video_note_file_id)]

register_video_note(video_note_file_id, full_message_id) ==
  IF is_scheduled(full_message_id) \/ ~is_server(full_message_id) \/ is_bot THEN Same
  ELSE IF ~is_valid(video_note_file_id) THEN Abort(Same)
  ELSE LET message_ids == Lookup(video_note_messages_, video_note_file_id, {})
           inserted == Put(video_note_messages_, video_note_file_id,
                           message_ids \cup {full_message_id})
       IN IF full_message_id \in message_ids
            THEN Abort([Same EXCEPT !.vnm = inserted])
          ELSE IF full_message_id \in DOMAIN message_video_notes_
            THEN Abort([Same EXCEPT !.vnm = inserted])
          ELSE [Same EXCEPT
                  !.vnm = inserted,
                  !.mvn = Put(message_video_notes_, full_message_id, video_note_file_id)]

\* Mutation of unregister_video_note: the set that has become empty is not erased.
unregister_video_note_keeps_empty(video_note_file_id, full_message_id) ==
  IF is_scheduled(full_message_id) \/ ~is_server(full_message_id) \/ is_bot THEN Same
  ELSE IF ~is_valid(video_note_file_id) THEN Abort(Same)
  ELSE LET message_ids == Lookup(video_note_messages_, video_note_file_id, {})
           left == message_ids \ {full_message_id}
           erased == Put(video_note_messages_, video_note_file_id, left)
       IN IF full_message_id \notin message_ids
            THEN Abort([Same EXCEPT
                          !.vnm = Put(video_note_messages_, video_note_file_id, message_ids)])
          ELSE IF full_message_id \notin DOMAIN message_video_notes_
            THEN Abort([Same EXCEPT !.vnm = erased])
          ELSE [Same EXCEPT !.vnm = erased,
                            !.mvn = Drop(message_video_notes_, full_message_id)]

\* Mutation of unregister_video_note: message_video_notes_ is not erased from.
unregister_video_note_keeps_message(video_note_file_id, full_message_id) ==
  IF is_scheduled(full_message_id) \/ ~is_server(full_message_id) \/ is_bot THEN Same
  ELSE IF ~is_valid(video_note_file_id) THEN Abort(Same)
  ELSE LET message_ids == Lookup(video_note_messages_, video_note_file_id, {})
           left == message_ids \ {full_message_id}
           erased == IF left = {}
                       THEN Drop(video_note_messages_, video_note_file_id)
                       ELSE Put(video_note_messages_, video_note_file_id, left)
       IN IF full_message_id \notin message_ids
            THEN Abort([Same EXCEPT
                          !.vnm = Put(video_note_messages_, video_note_file_id, message_ids)])
          ELSE [Same EXCEPT !.vnm = erased]

unregister_video_note(video_note_file_id, full_message_id) ==
  IF is_scheduled(full_message_id) \/ ~is_server(full_message_id) \/ is_bot THEN Same
  ELSE IF ~is_valid(video_note_file_id) THEN Abort(Same)
  ELSE LET message_ids == Lookup(video_note_messages_, video_note_file_id, {})
           left == message_ids \ {full_message_id}
           erased == IF left = {}
                       THEN Drop(video_note_messages_, video_note_file_id)
                       ELSE Put(video_note_messages_, video_note_file_id, left)
       IN IF full_message_id \notin message_ids
            THEN Abort([Same EXCEPT
                          !.vnm = Put(video_note_messages_, video_note_file_id, message_ids)])
          ELSE IF full_message_id \notin DOMAIN message_video_notes_
            THEN Abort([Same EXCEPT !.vnm = erased])
          ELSE [Same EXCEPT !.vnm = erased,
                            !.mvn = Drop(message_video_notes_, full_message_id)]

\* ------------------------------------------------------------- speech recognition
\* Result<updateTranscribedAudio>
UpdateError == [is_error |-> TRUE, pending |-> FALSE, text |-> "", transcription_id |-> 0]
Update(pending, text, transcription_id) ==
  [is_error |-> FALSE, pending |-> pending, text |-> text,
   transcription_id |-> transcription_id]
Updates(transcription_id) ==
  {UpdateError} \cup {Update(pe, t, transcription_id) : pe \in BOOLEAN, t \in Texts}

with_info(file_id, info) ==
  Put(video_notes_, file_id, [get_video_note(file_id) EXCEPT !.transcription_info = info])

\* Mutation of recognize_speech: a new TranscriptionInfo is made unless a request is
\* under way, so a completed transcription is requested again.
recognize_speech_forgets_final(full_message_id, promise) ==
  IF full_message_id \notin DOMAIN message_video_notes_ THEN Abort(Same)
  ELSE
    LET file_id == message_video_notes_[full_message_id]
        video_note == get_video_note(file_id)
    IN IF video_note.is_null THEN Abort(Same)
       ELSE
         LET info == IF video_note.transcription_info.phase \in {"Requested", "Partial"}
                       THEN video_note.transcription_info ELSE NewInfo
             r == TI_recognize_speech(info, promise)
         IN [Same EXCEPT
               !.vn = with_info(file_id, r.info),
               !.pr = set_promises(promises, r.done),
               !.ev = (IF r.done # {} THEN <<Event("set_value", r.done)>> ELSE <<>>)
                      \o (IF r.ret
                            THEN <<Event("send", {file_id}),
                                   on_video_note_transcription_updated(file_id)>>
                            ELSE <<>>)]

\* Mutation of recognize_speech: a new TranscriptionInfo is made for every request.
recognize_speech_fresh_info(full_message_id, promise) ==
  IF full_message_id \notin DOMAIN message_video_notes_ THEN Abort(Same)
  ELSE
    LET file_id == message_video_notes_[full_message_id]
        video_note == get_video_note(file_id)
    IN IF video_note.is_null THEN Abort(Same)
       ELSE
         LET r == TI_recognize_speech(NewInfo, promise)
         IN [Same EXCEPT
               !.vn = with_info(file_id, r.info),
               !.pr = set_promises(promises, r.done),
               !.ev = (IF r.done # {} THEN <<Event("set_value", r.done)>> ELSE <<>>)
                      \o (IF r.ret
                            THEN <<Event("send", {file_id}),
                                   on_video_note_transcription_updated(file_id)>>
                            ELSE <<>>)]

recognize_speech(full_message_id, promise) ==
  IF full_message_id \notin DOMAIN message_video_notes_ THEN Abort(Same)
  ELSE
    LET file_id == message_video_notes_[full_message_id]
        video_note == get_video_note(file_id)
    IN IF video_note.is_null THEN Abort(Same)
       ELSE
         LET info == IF video_note.transcription_info.phase = "Null"
                       THEN NewInfo ELSE video_note.transcription_info
             r == TI_recognize_speech(info, promise)
         IN [Same EXCEPT
               !.vn = with_info(file_id, r.info),
               !.pr = set_promises(promises, r.done),
               !.ev = (IF r.done # {} THEN <<Event("set_value", r.done)>> ELSE <<>>)
                      \o (IF r.ret
                            THEN <<Event("send", {file_id}),
                                   on_video_note_transcription_updated(file_id)>>
                            ELSE <<>>)]

\* Mutation of on_transcribed_audio_update: every partial transcription subscribes,
\* the first or not.
on_transcribed_audio_update_always_subscribes(file_id, is_initial, r_update) ==
  IF close_flag THEN Same
  ELSE
    LET video_note == get_video_note(file_id)
        info == video_note.transcription_info
    IN IF video_note.is_null THEN Abort(Same)
       ELSE IF info.phase = "Null" THEN Abort(Same)
       ELSE IF r_update.is_error
         THEN LET f == on_failed_transcription(info)
              IN [Same EXCEPT
                    !.vn = with_info(file_id, f.info),
                    !.pr = fail_promises(promises, f.promises, RemoteError),
                    !.ev = <<on_video_note_transcription_updated(file_id),
                             Event("set_error", f.promises)>>]
       ELSE IF ~r_update.pending
         THEN LET f == on_final_transcription(info, r_update.text, r_update.transcription_id)
              IN [Same EXCEPT
                    !.vn = with_info(file_id, f.info),
                    !.pr = set_promises(promises, f.promises),
                    !.ev = <<on_video_note_transcription_completed(file_id),
                             Event("set_value", f.promises)>>]
       ELSE LET f == on_partial_transcription(info, r_update.text, r_update.transcription_id)
            IN [Same EXCEPT
                  !.vn = with_info(file_id, f.info),
                  !.ev = (IF f.is_changed
                            THEN <<on_video_note_transcription_updated(file_id)>>
                            ELSE <<>>)
                         \o <<Event("subscribe", {r_update.transcription_id})>>]

\* Mutation of on_transcribed_audio_update: the messages are told of every partial
\* transcription, changed or not.
on_transcribed_audio_update_always_notifies(file_id, is_initial, r_update) ==
  IF close_flag THEN Same
  ELSE
    LET video_note == get_video_note(file_id)
        info == video_note.transcription_info
    IN IF video_note.is_null THEN Abort(Same)
       ELSE IF info.phase = "Null" THEN Abort(Same)
       ELSE IF r_update.is_error
         THEN LET f == on_failed_transcription(info)
              IN [Same EXCEPT
                    !.vn = with_info(file_id, f.info),
                    !.pr = fail_promises(promises, f.promises, RemoteError),
                    !.ev = <<on_video_note_transcription_updated(file_id),
                             Event("set_error", f.promises)>>]
       ELSE IF ~r_update.pending
         THEN LET f == on_final_transcription(info, r_update.text, r_update.transcription_id)
              IN [Same EXCEPT
                    !.vn = with_info(file_id, f.info),
                    !.pr = set_promises(promises, f.promises),
                    !.ev = <<on_video_note_transcription_completed(file_id),
                             Event("set_value", f.promises)>>]
       ELSE LET f == on_partial_transcription(info, r_update.text, r_update.transcription_id)
            IN [Same EXCEPT
                  !.vn = with_info(file_id, f.info),
                  !.ev = <<on_video_note_transcription_updated(file_id)>>
                         \o (IF is_initial
                               THEN <<Event("subscribe", {r_update.transcription_id})>>
                               ELSE <<>>)]

\* Mutation of on_transcribed_audio_update: the promises of a failed transcription
\* are dropped, not failed.
on_transcribed_audio_update_drops_failed(file_id, is_initial, r_update) ==
  IF close_flag THEN Same
  ELSE
    LET video_note == get_video_note(file_id)
        info == video_note.transcription_info
    IN IF video_note.is_null THEN Abort(Same)
       ELSE IF info.phase = "Null" THEN Abort(Same)
       ELSE IF r_update.is_error
         THEN LET f == on_failed_transcription(info)
              IN [Same EXCEPT
                    !.vn = with_info(file_id, f.info),
                    !.ev = <<on_video_note_transcription_updated(file_id)>>]
       ELSE IF ~r_update.pending
         THEN LET f == on_final_transcription(info, r_update.text, r_update.transcription_id)
              IN [Same EXCEPT
                    !.vn = with_info(file_id, f.info),
                    !.pr = set_promises(promises, f.promises),
                    !.ev = <<on_video_note_transcription_completed(file_id),
                             Event("set_value", f.promises)>>]
       ELSE LET f == on_partial_transcription(info, r_update.text, r_update.transcription_id)
            IN [Same EXCEPT
                  !.vn = with_info(file_id, f.info),
                  !.ev = (IF f.is_changed
                            THEN <<on_video_note_transcription_updated(file_id)>>
                            ELSE <<>>)
                         \o (IF is_initial
                               THEN <<Event("subscribe", {r_update.transcription_id})>>
                               ELSE <<>>)]

\* Mutation of on_transcribed_audio_update: the close flag is not consulted.
on_transcribed_audio_update_no_close_check(file_id, is_initial, r_update) ==
  LET video_note == get_video_note(file_id)
      info == video_note.transcription_info
  IN IF video_note.is_null THEN Abort(Same)
     ELSE IF info.phase = "Null" THEN Abort(Same)
     ELSE IF r_update.is_error
       THEN LET f == on_failed_transcription(info)
            IN [Same EXCEPT
                  !.vn = with_info(file_id, f.info),
                  !.pr = fail_promises(promises, f.promises, RemoteError),
                  !.ev = <<on_video_note_transcription_updated(file_id),
                           Event("set_error", f.promises)>>]
     ELSE IF ~r_update.pending
       THEN LET f == on_final_transcription(info, r_update.text, r_update.transcription_id)
            IN [Same EXCEPT
                  !.vn = with_info(file_id, f.info),
                  !.pr = set_promises(promises, f.promises),
                  !.ev = <<on_video_note_transcription_completed(file_id),
                           Event("set_value", f.promises)>>]
     ELSE LET f == on_partial_transcription(info, r_update.text, r_update.transcription_id)
          IN [Same EXCEPT
                !.vn = with_info(file_id, f.info),
                !.ev = (IF f.is_changed
                          THEN <<on_video_note_transcription_updated(file_id)>>
                          ELSE <<>>)
                       \o (IF is_initial
                             THEN <<Event("subscribe", {r_update.transcription_id})>>
                             ELSE <<>>)]

\* Mutation of on_transcribed_audio_update: the promises are resolved before the
\* messages of the video note are told.
on_transcribed_audio_update_resolves_first(file_id, is_initial, r_update) ==
  IF close_flag THEN Same
  ELSE
    LET video_note == get_video_note(file_id)
        info == video_note.transcription_info
    IN IF video_note.is_null THEN Abort(Same)
       ELSE IF info.phase = "Null" THEN Abort(Same)
       ELSE IF r_update.is_error
         THEN LET f == on_failed_transcription(info)
              IN [Same EXCEPT
                    !.vn = with_info(file_id, f.info),
                    !.pr = fail_promises(promises, f.promises, RemoteError),
                    !.ev = <<Event("set_error", f.promises),
                             on_video_note_transcription_updated(file_id)>>]
       ELSE IF ~r_update.pending
         THEN LET f == on_final_transcription(info, r_update.text, r_update.transcription_id)
              IN [Same EXCEPT
                    !.vn = with_info(file_id, f.info),
                    !.pr = set_promises(promises, f.promises),
                    !.ev = <<Event("set_value", f.promises),
                             on_video_note_transcription_completed(file_id)>>]
       ELSE LET f == on_partial_transcription(info, r_update.text, r_update.transcription_id)
            IN [Same EXCEPT
                  !.vn = with_info(file_id, f.info),
                  !.ev = (IF f.is_changed
                            THEN <<on_video_note_transcription_updated(file_id)>>
                            ELSE <<>>)
                         \o (IF is_initial
                               THEN <<Event("subscribe", {r_update.transcription_id})>>
                               ELSE <<>>)]

on_transcribed_audio_update(file_id, is_initial, r_update) ==
  IF close_flag THEN Same
  ELSE
    LET video_note == get_video_note(file_id)
        info == video_note.transcription_info
    IN IF video_note.is_null THEN Abort(Same)
       ELSE IF info.phase = "Null" THEN Abort(Same)
       ELSE IF r_update.is_error
         THEN LET f == on_failed_transcription(info)
              IN [Same EXCEPT
                    !.vn = with_info(file_id, f.info),
                    !.pr = fail_promises(promises, f.promises, RemoteError),
                    !.ev = <<on_video_note_transcription_updated(file_id),
                             Event("set_error", f.promises)>>]
       ELSE IF ~r_update.pending
         THEN LET f == on_final_transcription(info, r_update.text, r_update.transcription_id)
              IN [Same EXCEPT
                    !.vn = with_info(file_id, f.info),
                    !.pr = set_promises(promises, f.promises),
                    !.ev = <<on_video_note_transcription_completed(file_id),
                             Event("set_value", f.promises)>>]
       ELSE LET f == on_partial_transcription(info, r_update.text, r_update.transcription_id)
            IN [Same EXCEPT
                  !.vn = with_info(file_id, f.info),
                  !.ev = (IF f.is_changed
                            THEN <<on_video_note_transcription_updated(file_id)>>
                            ELSE <<>>)
                         \o (IF is_initial
                               THEN <<Event("subscribe", {r_update.transcription_id})>>
                               ELSE <<>>)]

\* ------------------------------------------------------------- queries
\* A Td::ResultHandler with the promise it owns.  state is the Query's place in
\* Pending -> {Completed, Failed, Cancelled}; reply_due: the network still owes a
\* reply; in_updates: the promise was handed to UpdatesManager::on_get_updates.
Query(kind, dialog_id) ==
  [kind |-> kind, dialog_id |-> dialog_id, state |-> "Pending", reply_due |-> TRUE,
   in_updates |-> FALSE, wire |-> {}]

NoDialog == 0
DialogIds == {NoDialog, 1}

\* create_handler<Q>(promise)->send(...): send_query
send_query(eff, promise, kind, dialog_id) ==
  [eff EXCEPT !.q = Put(@, promise, Query(kind, dialog_id)),
              !.ev = Append(@, Event("send_query", {promise}))]

\* send_query for a Query built from the caller's strings: wire holds them as sent
send_strings(eff, promise, kind, dialog_id, strings) ==
  [eff EXCEPT !.q = Put(@, promise, [Query(kind, dialog_id) EXCEPT !.wire = strings]),
              !.ev = Append(@, Event("send_query", {promise}))]

\* TranscriptionInfo::rate_speech_recognition
TI_rate_speech_recognition(info, promise) ==
  IF info.phase # "Final"
    THEN [Same EXCEPT !.pr = set_promises(promises, {promise}),
                      !.ev = <<Event("set_value", {promise})>>]
    ELSE send_query(Same, promise, "RateTranscribedAudio", NoDialog)

\* Mutation of rate_speech_recognition: without a TranscriptionInfo it returns and
\* leaves the promise alone.
rate_speech_recognition_drops_promise(full_message_id, promise) ==
  IF full_message_id \notin DOMAIN message_video_notes_ THEN Abort(Same)
  ELSE
    LET video_note == get_video_note(message_video_notes_[full_message_id])
    IN IF video_note.is_null THEN Abort(Same)
       ELSE IF video_note.transcription_info.phase = "Null" THEN Same
       ELSE TI_rate_speech_recognition(video_note.transcription_info, promise)

rate_speech_recognition(full_message_id, promise) ==
  IF full_message_id \notin DOMAIN message_video_notes_ THEN Abort(Same)
  ELSE
    LET video_note == get_video_note(message_video_notes_[full_message_id])
    IN IF video_note.is_null THEN Abort(Same)
       ELSE IF video_note.transcription_info.phase = "Null"
         THEN [Same EXCEPT !.pr = set_promises(promises, {promise}),
                           !.ev = <<Event("set_value", {promise})>>]
       ELSE TI_rate_speech_recognition(video_note.transcription_info, promise)

\* ------------------------------------------------------------- payments queries
\* What the network hands to a Query: a remote error, a packet fetch_result cannot
\* decode, or a decoded payload with the fields the handlers branch on.
Reply(kind, provider_valid, seller_valid, verification_needed) ==
  [kind |-> kind, provider_valid |-> provider_valid, seller_valid |-> seller_valid,
   verification_needed |-> verification_needed,
   url |-> IF verification_needed THEN "verification_url" ELSE "",
   invoice |-> EmptyInvoice, tip_amount |-> Zero]
ErrorReply == Reply("error", TRUE, TRUE, FALSE)
UndecodableReply == Reply("undecodable", TRUE, TRUE, FALSE)
Replies(kind) ==
  {ErrorReply, UndecodableReply} \cup
  (IF kind \in {"GetPaymentForm", "GetPaymentReceipt"}
     THEN {Reply("payload", pv, sv, FALSE) : pv \in BOOLEAN, sv \in BOOLEAN}
   ELSE IF kind = "SendPaymentForm"
     THEN {Reply("payload", TRUE, TRUE, vn) : vn \in BOOLEAN}
   ELSE {Reply("payload", TRUE, TRUE, FALSE)})

Settle(eff, promise, state) ==
  [eff EXCEPT !.q = Put(@, promise, [@[promise] EXCEPT !.state = state])]
Ended(class) == IF class = ShutdownError THEN "Cancelled" ELSE "Failed"

\* Mutation of GetPaymentFormQuery::on_error: the dialog error is reported and the
\* promise is not rejected.
GetPaymentFormQuery_on_error_keeps_promise(eff, promise, class) ==
  Settle([eff EXCEPT
            !.ev = @ \o <<Event("on_get_dialog_error", {eff.q[promise].dialog_id})>>],
         promise, Ended(class))

\* Mutation of GetPaymentFormQuery::on_error: the promise is rejected first and the
\* dialog error is reported afterwards.
GetPaymentFormQuery_on_error_rejects_first(eff, promise, class) ==
  Settle([eff EXCEPT
            !.ev = @ \o <<Event("set_error", {promise}),
                          Event("on_get_dialog_error", {eff.q[promise].dialog_id})>>,
            !.pr = fail_promises(@, {promise}, class)],
         promise, Ended(class))

\* GetPaymentFormQuery::on_error
GetPaymentFormQuery_on_error(eff, promise, class) ==
  Settle([eff EXCEPT
            !.ev = @ \o <<Event("on_get_dialog_error", {eff.q[promise].dialog_id}),
                          Event("set_error", {promise})>>,
            !.pr = fail_promises(@, {promise}, class)],
         promise, Ended(class))

\* Mutation of GetPaymentFormQuery::on_result: on_error is called for an invalid
\* seller and the handler goes on instead of returning.
GetPaymentFormQuery_on_result_no_return(eff, promise, reply) ==
  IF reply.kind = "undecodable"
    THEN GetPaymentFormQuery_on_error(eff, promise, "DecodeError")
  ELSE IF ~reply.provider_valid
    THEN GetPaymentFormQuery_on_error(eff, promise, "InvalidData")
  ELSE LET checked == IF ~reply.seller_valid
                        THEN GetPaymentFormQuery_on_error(eff, promise, "InvalidData")
                        ELSE eff
       IN Settle([checked EXCEPT
                    !.ev = Append(@, Event("set_value", {promise})),
                    !.pr = set_promises(@, {promise}),
                    !.res = Put(@, promise,
                                Result("paymentForm", convert_invoice(reply.invoice),
                                       Zero, TRUE, ""))],
                 promise, "Completed")

\* Mutation of GetPaymentFormQuery::on_result: the payment form is handed to the promise
\* of every Query that still waits, not to promise_ alone.
GetPaymentFormQuery_on_result_resolves_all(eff, promise, reply) ==
  IF reply.kind = "undecodable"
    THEN GetPaymentFormQuery_on_error(eff, promise, "DecodeError")
  ELSE IF ~reply.provider_valid
    THEN GetPaymentFormQuery_on_error(eff, promise, "InvalidData")
  ELSE IF ~reply.seller_valid
    THEN GetPaymentFormQuery_on_error(eff, promise, "InvalidData")
  ELSE LET waiting == {o \in DOMAIN eff.q : eff.q[o].state = "Pending"}
       IN [eff EXCEPT
             !.ev = Append(@, Event("set_value", waiting)),
             !.pr = set_promises(@, waiting),
             !.res = [o \in DOMAIN @ |->
                        IF o \in waiting
                          THEN Result("paymentForm", convert_invoice(reply.invoice),
                                      Zero, TRUE, "")
                          ELSE @[o]],
             !.q = [o \in DOMAIN @ |->
                      IF o \in waiting THEN [@[o] EXCEPT !.state = "Completed"] ELSE @[o]]]

\* GetPaymentFormQuery::on_result
GetPaymentFormQuery_on_result(eff, promise, reply) ==
  IF reply.kind = "undecodable"
    THEN GetPaymentFormQuery_on_error(eff, promise, "DecodeError")
  ELSE IF ~reply.provider_valid
    THEN GetPaymentFormQuery_on_error(eff, promise, "InvalidData")
  ELSE IF ~reply.seller_valid
    THEN GetPaymentFormQuery_on_error(eff, promise, "InvalidData")
  ELSE Settle([eff EXCEPT
                 !.ev = Append(@, Event("set_value", {promise})),
                 !.pr = set_promises(@, {promise}),
                 !.res = Put(@, promise,
                             Result("paymentForm", convert_invoice(reply.invoice),
                                    Zero, TRUE, ""))],
              promise, "Completed")

\* SendPaymentFormQuery::on_error
SendPaymentFormQuery_on_error(eff, promise, class) ==
  Settle([eff EXCEPT
            !.ev = @ \o <<Event("on_get_dialog_error", {eff.q[promise].dialog_id}),
                          Event("set_error", {promise})>>,
            !.pr = fail_promises(@, {promise}, class)],
         promise, Ended(class))

\* SendPaymentFormQuery::on_result
\* Mutation of SendPaymentFormQuery::on_result: a payment result fulfils the promise
\* at once and the updates are processed after.
SendPaymentFormQuery_on_result_fulfils_at_once(eff, promise, reply) ==
  IF reply.kind = "undecodable"
    THEN SendPaymentFormQuery_on_error(eff, promise, "DecodeError")
  ELSE IF ~reply.verification_needed
    THEN Settle([eff EXCEPT
                   !.ev = @ \o <<Event("set_value", {promise}),
                                 Event("on_get_updates", {})>>,
                   !.pr = set_promises(@, {promise}),
                   !.res = Put(@, promise,
                               Result("paymentResult", EmptyInvoice, Zero, TRUE, ""))],
                promise, "Completed")
  ELSE Settle([eff EXCEPT
                 !.ev = Append(@, Event("set_value", {promise})),
                 !.pr = set_promises(@, {promise}),
                 !.res = Put(@, promise,
                             Result("paymentResult", EmptyInvoice, Zero, FALSE,
                                    reply.url))],
              promise, "Completed")

SendPaymentFormQuery_on_result(eff, promise, reply) ==
  IF reply.kind = "undecodable"
    THEN SendPaymentFormQuery_on_error(eff, promise, "DecodeError")
  ELSE IF ~reply.verification_needed
    THEN Settle([eff EXCEPT
                   !.ev = Append(@, Event("on_get_updates", {promise})),
                   !.q = Put(@, promise, [@[promise] EXCEPT !.in_updates = TRUE])],
                promise, "Completed")
  ELSE Settle([eff EXCEPT
                 !.ev = Append(@, Event("set_value", {promise})),
                 !.pr = set_promises(@, {promise}),
                 !.res = Put(@, promise,
                             Result("paymentResult", EmptyInvoice, Zero, FALSE,
                                    reply.url))],
              promise, "Completed")

\* The promise SendPaymentFormQuery::on_result hands to on_get_updates.
SendPaymentFormQuery_updates_promise(eff, promise) ==
  [eff EXCEPT !.ev = Append(@, Event("set_value", {promise})),
              !.pr = set_promises(@, {promise}),
              !.res = Put(@, promise, Result("paymentResult", EmptyInvoice, Zero, TRUE, "")),
              !.q = Put(@, promise, [@[promise] EXCEPT !.in_updates = FALSE])]

\* GetPaymentReceiptQuery::on_error
GetPaymentReceiptQuery_on_error(eff, promise, class) ==
  Settle([eff EXCEPT
            !.ev = @ \o <<Event("on_get_dialog_error", {eff.q[promise].dialog_id}),
                          Event("set_error", {promise})>>,
            !.pr = fail_promises(@, {promise}, class)],
         promise, Ended(class))

\* GetPaymentReceiptQuery::on_result
GetPaymentReceiptQuery_on_result(eff, promise, reply) ==
  IF reply.kind = "undecodable"
    THEN GetPaymentReceiptQuery_on_error(eff, promise, "DecodeError")
  ELSE IF ~reply.provider_valid
    THEN GetPaymentReceiptQuery_on_error(eff, promise, "InvalidData")
  ELSE IF ~reply.seller_valid
    THEN GetPaymentReceiptQuery_on_error(eff, promise, "InvalidData")
  ELSE Settle([eff EXCEPT
                 !.ev = Append(@, Event("set_value", {promise})),
                 !.pr = set_promises(@, {promise}),
                 !.res = Put(@, promise,
                             Result("paymentReceipt", convert_invoice(reply.invoice),
                                    IF is_valid_tip(reply.tip_amount)
                                      THEN reply.tip_amount ELSE Zero,
                                    TRUE, ""))],
              promise, "Completed")

\* GetPaymentReceiptQuery::send: without an input peer for the dialog the handler fails
\* through its own on_error and nothing is transmitted.
GetPaymentReceiptQuery_send(eff, promise, dialog_id, has_input_peer) ==
  IF ~has_input_peer
    THEN GetPaymentReceiptQuery_on_error(
           [eff EXCEPT !.q = Put(@, promise,
                                 [Query("GetPaymentReceipt", dialog_id)
                                    EXCEPT !.reply_due = FALSE])],
           promise, ValidationError)
    ELSE send_query(eff, promise, "GetPaymentReceipt", dialog_id)

\* ValidateRequestedInfoQuery::on_error
ValidateRequestedInfoQuery_on_error(eff, promise, class) ==
  Settle([eff EXCEPT
            !.ev = @ \o <<Event("on_get_dialog_error", {eff.q[promise].dialog_id}),
                          Event("set_error", {promise})>>,
            !.pr = fail_promises(@, {promise}, class)],
         promise, Ended(class))

\* ValidateRequestedInfoQuery::on_result
ValidateRequestedInfoQuery_on_result(eff, promise, reply) ==
  IF reply.kind = "undecodable"
    THEN ValidateRequestedInfoQuery_on_error(eff, promise, "DecodeError")
    ELSE Settle([eff EXCEPT
                   !.ev = Append(@, Event("set_value", {promise})),
                   !.pr = set_promises(@, {promise}),
                   !.res = Put(@, promise,
                               Result("validatedOrderInfo",
                                      Invoice([i \in DOMAIN reply.invoice.prices |->
                                                 convert_labeled_price(reply.invoice.prices[i])],
                                              Zero, <<>>),
                                      Zero, TRUE, ""))],
                promise, "Completed")

\* SetBotShippingAnswerQuery::on_error
SetBotShippingAnswerQuery_on_error(eff, promise, class) ==
  Settle([eff EXCEPT !.ev = Append(@, Event("set_error", {promise})),
                     !.pr = fail_promises(@, {promise}, class)],
         promise, Ended(class))

\* SetBotShippingAnswerQuery::on_result
SetBotShippingAnswerQuery_on_result(eff, promise, reply) ==
  IF reply.kind = "undecodable"
    THEN SetBotShippingAnswerQuery_on_error(eff, promise, "DecodeError")
    ELSE Settle([eff EXCEPT !.ev = Append(@, Event("set_value", {promise})),
                            !.pr = set_promises(@, {promise})],
                promise, "Completed")

\* RateTranscribedAudioQuery
RateTranscribedAudioQuery_on_error(eff, promise, class) ==
  Settle([eff EXCEPT !.ev = Append(@, Event("set_error", {promise})),
                     !.pr = fail_promises(@, {promise}, class)],
         promise, Ended(class))

RateTranscribedAudioQuery_on_result(eff, promise, reply) ==
  IF reply.kind = "undecodable"
    THEN RateTranscribedAudioQuery_on_error(eff, promise, "DecodeError")
    ELSE Settle([eff EXCEPT !.ev = Append(@, Event("set_value", {promise})),
                            !.pr = set_promises(@, {promise})],
                promise, "Completed")

\* ------------------------------------------------------------- the dispatcher
on_error(eff, promise, class) ==
  LET kind == eff.q[promise].kind
  IN IF kind = "GetPaymentForm" THEN GetPaymentFormQuery_on_error(eff, promise, class)
     ELSE IF kind = "SendPaymentForm" THEN SendPaymentFormQuery_on_error(eff, promise, class)
     ELSE IF kind = "GetPaymentReceipt"
       THEN GetPaymentReceiptQuery_on_error(eff, promise, class)
     ELSE IF kind = "ValidateRequestedInfo"
       THEN ValidateRequestedInfoQuery_on_error(eff, promise, class)
     ELSE IF kind = "SetBotShippingAnswer"
       THEN SetBotShippingAnswerQuery_on_error(eff, promise, class)
     ELSE RateTranscribedAudioQuery_on_error(eff, promise, class)

on_result(eff, promise, reply) ==
  LET kind == eff.q[promise].kind
  IN IF kind = "GetPaymentForm" THEN GetPaymentFormQuery_on_result(eff, promise, reply)
     ELSE IF kind = "SendPaymentForm" THEN SendPaymentFormQuery_on_result(eff, promise, reply)
     ELSE IF kind = "GetPaymentReceipt"
       THEN GetPaymentReceiptQuery_on_result(eff, promise, reply)
     ELSE IF kind = "ValidateRequestedInfo"
       THEN ValidateRequestedInfoQuery_on_result(eff, promise, reply)
     ELSE IF kind = "SetBotShippingAnswer"
       THEN SetBotShippingAnswerQuery_on_result(eff, promise, reply)
     ELSE RateTranscribedAudioQuery_on_result(eff, promise, reply)

\* The reply for a Query reaches its handler, unless the Query is no longer Pending.
Td_on_result(promise, reply) ==
  LET got == [Same EXCEPT !.q = Put(@, promise, [@[promise] EXCEPT !.reply_due = FALSE])]
  IN IF queries[promise].state # "Pending" THEN got
     ELSE IF reply.kind = "error" THEN on_error(got, promise, RemoteError)
     ELSE on_result(got, promise, reply)

PendingQueries(q) == {p \in DOMAIN q : q[p].state = "Pending"}

\* Closing: every Pending Query is failed with the shutdown error.
RECURSIVE cancel_queries(_, _)
cancel_queries(eff, ps) ==
  IF ps = {} THEN eff
  ELSE LET p == CHOOSE x \in ps : \A y \in ps : x <= y
       IN cancel_queries(on_error(eff, p, ShutdownError), ps \ {p})

\* ------------------------------------------------------------- payments requests
\* td_api::InputInvoice as get_input_invoice_info sees it
Invoices == {"null", "message", "message_no_access", "name"}
\* td_api::InputCredentials: none, saved ones (with a clean or an unclean identifier,
\* with or without a temporary password at hand), new ones
Credentials == {"null", "saved", "saved_unclean", "saved_no_password", "new"}

\* Strings of the callers: text, or bytes that are no valid text.
CleanString == <<"a">>
UncleanString == <<"\\xff">>
Strings == {CleanString, UncleanString}
clean_input_string(str) == \A i \in DOMAIN str : str[i] # "\\xff"

\* td_api::labeledPricePart and td_api::shippingOption, possibly null
PricePart(label, amount) == [is_null |-> FALSE, label |-> label, amount |-> amount]
NullPricePart == [is_null |-> TRUE, label |-> <<>>, amount |-> Zero]
ShippingOption(id, title, price_parts) ==
  [is_null |-> FALSE, id |-> id, title |-> title, price_parts |-> price_parts]
NullShippingOption == [is_null |-> TRUE, id |-> <<>>, title |-> <<>>, price_parts |-> <<>>]

\* td_api::address and td_api::orderInfo, possibly null
Address(country_code, state, city, street_line1, street_line2, postal_code) ==
  [is_null |-> FALSE, country_code |-> country_code, state |-> state, city |-> city,
   street_line1 |-> street_line1, street_line2 |-> street_line2,
   postal_code |-> postal_code]
NullAddress ==
  [is_null |-> TRUE, country_code |-> <<>>, state |-> <<>>, city |-> <<>>,
   street_line1 |-> <<>>, street_line2 |-> <<>>, postal_code |-> <<>>]
OrderInfo(name, phone_number, email_address, shipping_address) ==
  [is_null |-> FALSE, name |-> name, phone_number |-> phone_number,
   email_address |-> email_address, shipping_address |-> shipping_address]
NullOrderInfo ==
  [is_null |-> TRUE, name |-> <<>>, phone_number |-> <<>>, email_address |-> <<>>,
   shipping_address |-> NullAddress]

\* get_input_invoice_info: ok and the dialog of the invoice
get_input_invoice_info(input_invoice) ==
  IF input_invoice = "null" THEN [ok |-> FALSE, dialog_id |-> NoDialog]
  ELSE IF input_invoice = "message_no_access" THEN [ok |-> FALSE, dialog_id |-> NoDialog]
  ELSE IF input_invoice = "message" THEN [ok |-> TRUE, dialog_id |-> 1]
  ELSE [ok |-> TRUE, dialog_id |-> NoDialog]

reject_now(promise, class) ==
  [Same EXCEPT !.pr = fail_promises(promises, {promise}, class),
               !.ev = <<Event("set_error", {promise})>>]

get_payment_form(input_invoice, promise) ==
  LET info == get_input_invoice_info(input_invoice)
  IN IF ~info.ok THEN reject_now(promise, ValidationError)
     ELSE send_query(Same, promise, "GetPaymentForm", info.dialog_id)

\* The identifier inside td_api::inputCredentialsSaved
saved_credentials_id(credentials) ==
  IF credentials = "saved_unclean" THEN UncleanString ELSE CleanString

send_payment_form(input_invoice, order_info_id, shipping_option_id, credentials, promise) ==
  LET info == get_input_invoice_info(input_invoice)
  IN IF ~info.ok THEN reject_now(promise, ValidationError)
     ELSE IF credentials = "null" THEN reject_now(promise, ValidationError)
     ELSE IF credentials = "new"
       THEN send_strings(Same, promise, "SendPaymentForm", info.dialog_id,
                         {order_info_id, shipping_option_id})
     ELSE IF ~clean_input_string(saved_credentials_id(credentials))
       THEN reject_now(promise, ValidationError)
     ELSE IF credentials = "saved_no_password" THEN reject_now(promise, ValidationError)
     ELSE send_strings(Same, promise, "SendPaymentForm", info.dialog_id,
                       {order_info_id, shipping_option_id,
                        saved_credentials_id(credentials)})

\* Mutation of answer_shipping_query: the amount of a price part is not checked.
RECURSIVE price_parts_ok_any_amount(_)
price_parts_ok_any_amount(price_parts) ==
  IF price_parts = <<>> THEN TRUE
  ELSE LET price_part == Head(price_parts)
       IN IF price_part.is_null THEN FALSE
          ELSE IF ~clean_input_string(price_part.label) THEN FALSE
          ELSE price_parts_ok_any_amount(Tail(price_parts))

\* The loop of answer_shipping_query over the price parts of an option
RECURSIVE price_parts_ok(_)
price_parts_ok(price_parts) ==
  IF price_parts = <<>> THEN TRUE
  ELSE LET price_part == Head(price_parts)
       IN IF price_part.is_null THEN FALSE
          ELSE IF ~clean_input_string(price_part.label) THEN FALSE
          ELSE IF ~check_currency_amount(price_part.amount) THEN FALSE
          ELSE price_parts_ok(Tail(price_parts))

\* The loop of answer_shipping_query over the options
RECURSIVE shipping_options_ok(_)
shipping_options_ok(shipping_options) ==
  IF shipping_options = <<>> THEN TRUE
  ELSE LET option == Head(shipping_options)
       IN IF option.is_null THEN FALSE
          ELSE IF ~clean_input_string(option.id) THEN FALSE
          ELSE IF ~clean_input_string(option.title) THEN FALSE
          ELSE IF ~price_parts_ok(option.price_parts) THEN FALSE
          ELSE shipping_options_ok(Tail(shipping_options))

\* The strings of the options as they go into telegram_api::shippingOption
OptionStrings(shipping_options) ==
  UNION {{shipping_options[i].id, shipping_options[i].title}
           \cup {shipping_options[i].price_parts[j].label :
                    j \in DOMAIN shipping_options[i].price_parts} :
         i \in DOMAIN shipping_options}

answer_shipping_query(shipping_options, error_message, promise) ==
  IF ~shipping_options_ok(shipping_options) THEN reject_now(promise, ValidationError)
  ELSE send_strings(Same, promise, "SetBotShippingAnswer", NoDialog,
                    OptionStrings(shipping_options) \cup {error_message})

\* The strings of td_api::orderInfo as convert_order_info sends them
OrderInfoStrings(order_info) ==
  IF order_info.is_null THEN {}
  ELSE {order_info.name, order_info.phone_number, order_info.email_address}
         \cup (IF order_info.shipping_address.is_null THEN {}
                ELSE LET a == order_info.shipping_address
                     IN {a.country_code, a.state, a.city, a.street_line1,
                         a.street_line2, a.postal_code})

\* Mutation of validate_order_info: the shipping address is not checked.
validate_order_info_unchecked_address(input_invoice, order_info, promise) ==
  LET info == get_input_invoice_info(input_invoice)
  IN IF ~info.ok THEN reject_now(promise, ValidationError)
     ELSE IF ~order_info.is_null
             /\ (\/ ~clean_input_string(order_info.name)
                 \/ ~clean_input_string(order_info.phone_number)
                 \/ ~clean_input_string(order_info.email_address))
       THEN reject_now(promise, ValidationError)
     ELSE send_strings(Same, promise, "ValidateRequestedInfo", info.dialog_id,
                       OrderInfoStrings(order_info))

validate_order_info(input_invoice, order_info, promise) ==
  LET info == get_input_invoice_info(input_invoice)
      address == order_info.shipping_address
  IN IF ~info.ok THEN reject_now(promise, ValidationError)
     ELSE IF ~order_info.is_null
             /\ (\/ ~clean_input_string(order_info.name)
                 \/ ~clean_input_string(order_info.phone_number)
                 \/ ~clean_input_string(order_info.email_address))
       THEN reject_now(promise, ValidationError)
     ELSE IF ~order_info.is_null /\ ~address.is_null
             /\ (\/ ~clean_input_string(address.country_code)
                 \/ ~clean_input_string(address.state)
                 \/ ~clean_input_string(address.city)
                 \/ ~clean_input_string(address.street_line1)
                 \/ ~clean_input_string(address.street_line2)
                 \/ ~clean_input_string(address.postal_code))
       THEN reject_now(promise, ValidationError)
     ELSE send_strings(Same, promise, "ValidateRequestedInfo", info.dialog_id,
                       OrderInfoStrings(order_info))

answer_pre_checkout_query(error_message, promise) ==
  send_strings(Same, promise, "SetBotPreCheckoutAnswer", NoDialog, {error_message})

get_bank_card_info(bank_card_number, promise) ==
  send_strings(Same, promise, "GetBankCardInfo", NoDialog, {bank_card_number})

\* The request entry points: the strings of a request that the payments functions take
\* as they are (const string &) are checked as clean before the function is called.
Td_on_request_sendPaymentForm(input_invoice, order_info_id, shipping_option_id, credentials, promise) ==
  IF ~clean_input_string(order_info_id) THEN reject_now(promise, ValidationError)
  ELSE IF ~clean_input_string(shipping_option_id) THEN reject_now(promise, ValidationError)
  ELSE send_payment_form(input_invoice, order_info_id, shipping_option_id, credentials,
                         promise)

Td_on_request_answerShippingQuery(shipping_options, error_message, promise) ==
  IF ~clean_input_string(error_message) THEN reject_now(promise, ValidationError)
  ELSE answer_shipping_query(shipping_options, error_message, promise)

Td_on_request_answerPreCheckoutQuery(error_message, promise) ==
  IF ~clean_input_string(error_message) THEN reject_now(promise, ValidationError)
  ELSE answer_pre_checkout_query(error_message, promise)

Td_on_request_getBankCardInfo(bank_card_number, promise) ==
  IF ~clean_input_string(bank_card_number) THEN reject_now(promise, ValidationError)
  ELSE get_bank_card_info(bank_card_number, promise)

\* The messages get_payment_receipt is asked about: one that is no successful payment,
\* a payment in a dialog that cannot be read, a payment in a dialog that can.
Receipts == {"not_payment", "message_no_access", "message"}

get_payment_receipt(full_message_id, promise) ==
  IF full_message_id = "not_payment" THEN reject_now(promise, ValidationError)
  ELSE GetPaymentReceiptQuery_send(Same, promise, 1, full_message_id = "message")

\* ------------------------------------------------------------- actions
InitManagers ==
  /\ video_notes_ = [f \in {} |-> NullVideoNote]
  /\ video_note_messages_ = [f \in {} |-> {}]
  /\ message_video_notes_ = [m \in {} |-> InvalidFileId]
  /\ close_flag = FALSE
  /\ destroyed = FALSE
  /\ aborted = FALSE
  /\ promises = [p \in PromiseIds |-> <<>>]
  /\ next_promise = 1
  /\ queries = [p \in {} |-> Query("", NoDialog)]
  /\ inflight = [f \in FileIds |-> 0]
  /\ subscriptions = {}
  /\ events = <<>>
  /\ results = [p \in PromiseIds |-> NoResult]
  /\ is_bot \in BOOLEAN

\* The managers of video notes and payments do not read the clock.
Init ==
  /\ InitManagers
  /\ unix_time = 0
  /\ notification_settings = DefaultSettings

\* The account is a user: bots have no registry (register_video_note returns at once).
InitUser == Init /\ is_bot = FALSE

Running == ~aborted /\ ~destroyed

\* Requests the last handler transmitted for file_id, subscriptions it opened.
Sends(ev, file_id) ==
  Cardinality({i \in DOMAIN ev : ev[i].ev = "send" /\ file_id \in ev[i].targets})
Subscribed(ev, file_id) ==
  {[transcription_id |-> t, file_id |-> file_id] :
     t \in UNION {ev[i].targets : i \in {j \in DOMAIN ev : ev[j].ev = "subscribe"}}}

\* One handler has run to its end.
Apply(eff, infl, subs) ==
  /\ video_notes_' = eff.vn
  /\ video_note_messages_' = eff.vnm
  /\ message_video_notes_' = eff.mvn
  /\ promises' = eff.pr
  /\ queries' = eff.q
  /\ events' = eff.ev
  /\ results' = eff.res
  /\ aborted' = eff.ab
  /\ inflight' = [f \in DOMAIN infl |-> infl[f] + Sends(eff.ev, f)]
  /\ subscriptions' = subs
  /\ UNCHANGED <<close_flag, destroyed, is_bot, unix_time, notification_settings>>

Call(eff) == Apply(eff, inflight, subscriptions) /\ UNCHANGED next_promise
CallWithPromise(eff) ==
  Apply(eff, inflight, subscriptions) /\ next_promise' = next_promise + 1
HasPromise == next_promise <= MaxPromises

\* Callers hand in video notes from C, handles from F and messages from M.
OnGetVideoNote(C) ==
  \E c \in C, replace \in BOOLEAN :
    Running /\ Call(on_get_video_note(c, replace))

\* The sizes and durations the server sends: a good one, a wrong one.
ReceivedSizes == {<<240, 240>>, <<240, 360>>, <<720, 720>>}
ReceivedDurations == {-1, 5}

CreateVideoNote(F) ==
  \E f \in F, duration \in ReceivedDurations, size \in ReceivedSizes, replace \in BOOLEAN :
    Running /\ Call(create_video_note(f, "m1", 11, duration, size[1], size[2], "w1", replace))

DeleteVideoNoteThumbnail(F) ==
  \E f \in F : Running /\ Call(delete_video_note_thumbnail(f))

DupVideoNote(F) ==
  \E new_id \in F, old_id \in F :
    Running /\ Call(dup_video_note(new_id, old_id))

MergeVideoNotes(F) ==
  \E new_id \in F, old_id \in F :
    Running /\ Call(merge_video_notes(new_id, old_id))

RegisterVideoNote(F, M) ==
  \E f \in F, m \in M : Running /\ Call(register_video_note(f, m))

UnregisterVideoNote(F, M) ==
  \E f \in F, m \in M : Running /\ Call(unregister_video_note(f, m))

RecognizeSpeech ==
  \E m \in Msgs :
    Running /\ HasPromise /\ CallWithPromise(recognize_speech(m, next_promise))

RateSpeechRecognition ==
  \E m \in Msgs :
    Running /\ HasPromise /\ CallWithPromise(rate_speech_recognition(m, next_promise))

\* The transcription_id the server gives a new transcription.
ServerTranscriptionId ==
  CHOOSE t \in TranscriptionIds :
    /\ t \notin {s.transcription_id : s \in subscriptions}
    /\ \A u \in TranscriptionIds :
         u \notin {s.transcription_id : s \in subscriptions} => t <= u

\* The reply to a transcription request reaches the manager.
DeliverFirst(f, r) ==
  /\ Running
  /\ inflight[f] > 0
  /\ LET eff == on_transcribed_audio_update(f, TRUE, r)
     IN /\ Apply(eff, [inflight EXCEPT ![f] = @ - 1],
                 subscriptions \cup Subscribed(eff.ev, f))
        /\ UNCHANGED next_promise

DeliverReply(f) == \E r \in Updates(ServerTranscriptionId) : DeliverFirst(f, r)

\* A subscribed update reaches the manager; a final or failed one ends the subscription.
DeliverPush(s, r) ==
  /\ Running
  /\ s \in subscriptions
  /\ LET eff == on_transcribed_audio_update(s.file_id, FALSE, r)
     IN /\ Apply(eff, inflight,
                 IF r.is_error \/ ~r.pending
                   THEN subscriptions \ {s}
                   ELSE subscriptions \cup Subscribed(eff.ev, s.file_id))
        /\ UNCHANGED next_promise

Subscriptions == [transcription_id : TranscriptionIds, file_id : FileIds]
PartialPush ==
  \E s \in Subscriptions, t \in Texts : DeliverPush(s, Update(TRUE, t, s.transcription_id))
TerminalPush(s) ==
  \E r \in {UpdateError} \cup {Update(FALSE, t, s.transcription_id) : t \in Texts} :
    DeliverPush(s, r)

\* The reply to a Query arrives.
DeliverQueryReply(p) ==
  /\ ~aborted
  /\ p \in DOMAIN queries
  /\ queries[p].reply_due
  /\ \E reply \in Replies(queries[p].kind) : Call(Td_on_result(p, reply))

\* Amounts the server may send: small ones, both edges of the range, 2^41 and -2^41.
ServerAmounts ==
  {Int64(0, 5), Int64(-1, LimbBase - 5), MAX_AMOUNT, Int64(953674, 331776),
   Negate(MAX_AMOUNT), Negate(Int64(953674, 331776)), Int64(2 * LimbBase, 0),
   Int64(-2 * LimbBase, 0)}

\* Invoices the server may send: one price, or a maximum tip with suggested tips, or
\* more suggested tips than are kept.
ServerInvoices ==
  {Invoice(<<a>>, Zero, <<>>) : a \in ServerAmounts}
    \cup {Invoice(<<>>, a, <<a, Int64(0, 5)>>) : a \in ServerAmounts}
    \cup {Invoice(<<>>, Zero, <<Int64(0, 1), Int64(0, 2), Int64(0, 3), Int64(0, 4), Int64(0, 5)>>)}

\* Replies that carry amounts.
DataReplies(kind) ==
  {ErrorReply} \cup
  (IF kind = "GetPaymentForm"
     THEN {[Reply("payload", TRUE, TRUE, FALSE) EXCEPT !.invoice = inv] : inv \in ServerInvoices}
   ELSE IF kind = "GetPaymentReceipt"
     THEN {[Reply("payload", TRUE, TRUE, FALSE)
              EXCEPT !.invoice = Invoice(<<a>>, Zero, <<>>), !.tip_amount = a] :
           a \in ServerAmounts}
   ELSE {Reply("payload", TRUE, TRUE, FALSE)})

\* Replies that tell one Query's answer from another's: an error, or one of two prices.
OrderReplies(kind) ==
  {ErrorReply} \cup
  (IF kind \in {"GetPaymentForm", "ValidateRequestedInfo"}
     THEN {[Reply("payload", TRUE, TRUE, FALSE) EXCEPT !.invoice = Invoice(<<a>>, Zero, <<>>)] :
           a \in {Int64(0, 5), Int64(0, 7)}}
     ELSE {Reply("payload", TRUE, TRUE, FALSE)})

\* The reply to Query p arrives and is reply.
DeliverData(p, reply) ==
  /\ ~aborted
  /\ p \in DOMAIN queries
  /\ queries[p].reply_due
  /\ Call(Td_on_result(p, reply))

\* UpdatesManager has processed the updates of a payment result.
UpdatesProcessed(p) ==
  /\ ~aborted
  /\ p \in DOMAIN queries
  /\ queries[p].in_updates
  /\ Call(SendPaymentFormQuery_updates_promise(Same, p))

GetPaymentForm ==
  \E i \in Invoices :
    ~aborted /\ HasPromise /\ CallWithPromise(get_payment_form(i, next_promise))

GetPaymentReceipt ==
  \E m \in Receipts :
    ~aborted /\ HasPromise /\ CallWithPromise(get_payment_receipt(m, next_promise))

\* Callers pass identifiers from S.
SendPaymentFormWith(S) ==
  \E i \in Invoices, c \in Credentials, order_info_id \in S, option_id \in S :
    /\ ~aborted
    /\ HasPromise
    /\ CallWithPromise(Td_on_request_sendPaymentForm(i, order_info_id, option_id, c,
                                                     next_promise))

SendPaymentForm == SendPaymentFormWith({CleanString})

\* What the callers of answer_shipping_query and validate_order_info pass: amounts at
\* both edges of the range, null and non-null parts, clean and unclean strings.
OutgoingAmounts ==
  {Int64(0, 5), MAX_AMOUNT, Int64(953674, 331776), Negate(MAX_AMOUNT),
   Negate(Int64(953674, 331776))}
PriceParts == {NullPricePart} \cup {PricePart(l, a) : l \in Strings, a \in OutgoingAmounts}
GoodPricePart == PricePart(CleanString, Int64(0, 5))
PricePartLists ==
  {<<>>} \cup {<<part>> : part \in PriceParts} \cup {<<GoodPricePart, part>> : part \in PriceParts}
ShippingOptions ==
  {NullShippingOption}
    \cup {ShippingOption(id, t, ps) : id \in Strings, t \in Strings, ps \in PricePartLists}
GoodShippingOption == ShippingOption(CleanString, CleanString, <<GoodPricePart>>)
ShippingOptionLists ==
  {<<>>} \cup {<<o>> : o \in ShippingOptions} \cup {<<GoodShippingOption, o>> : o \in ShippingOptions}

GoodAddress ==
  Address(CleanString, CleanString, CleanString, CleanString, CleanString, CleanString)
Addresses ==
  {NullAddress, GoodAddress}
    \cup {[GoodAddress EXCEPT ![f] = UncleanString] :
            f \in {"country_code", "state", "city", "street_line1", "street_line2",
                   "postal_code"}}
OrderInfos ==
  {NullOrderInfo}
    \cup {OrderInfo(n, ph, e, a) : n \in Strings, ph \in Strings, e \in Strings, a \in Addresses}

AnswerShippingQuery ==
  \E shipping_options \in ShippingOptionLists, error_message \in Strings :
    /\ ~aborted
    /\ HasPromise
    /\ CallWithPromise(Td_on_request_answerShippingQuery(shipping_options, error_message,
                                                         next_promise))

AnswerPreCheckoutQuery ==
  \E error_message \in Strings :
    /\ ~aborted
    /\ HasPromise
    /\ CallWithPromise(Td_on_request_answerPreCheckoutQuery(error_message, next_promise))

GetBankCardInfo ==
  \E bank_card_number \in Strings :
    /\ ~aborted
    /\ HasPromise
    /\ CallWithPromise(Td_on_request_getBankCardInfo(bank_card_number, next_promise))

\* Callers pass order infos from O.
ValidateOrderInfoWith(O) ==
  \E i \in Invoices, order_info \in O :
    /\ ~aborted
    /\ HasPromise
    /\ CallWithPromise(validate_order_info(i, order_info, next_promise))

ValidateOrderInfo == ValidateOrderInfoWith(OrderInfos)

\* Td starts closing: the close flag is set and the Pending queries are failed.
BeginShutdown ==
  /\ ~aborted
  /\ ~close_flag
  /\ close_flag' = TRUE
  /\ LET eff == cancel_queries(Same, PendingQueries(queries))
     IN /\ promises' = eff.pr
        /\ queries' = eff.q
        /\ events' = eff.ev
  /\ UNCHANGED <<video_notes_, video_note_messages_, message_video_notes_, destroyed,
                 aborted, next_promise, inflight, subscriptions, results, is_bot,
                 unix_time, notification_settings>>

\* The promises that wait in some cached video note.
Waiters(vn) == UNION {vn[f].transcription_info.waiters : f \in DOMAIN vn}

\* ~VideoNotesManager: the cache goes, and with it the promises that still wait.
TearDown ==
  /\ Running
  /\ close_flag
  /\ destroyed' = TRUE
  /\ video_notes_' = [f \in {} |-> NullVideoNote]
  /\ video_note_messages_' = [f \in {} |-> {}]
  /\ message_video_notes_' = [m \in {} |-> InvalidFileId]
  /\ promises' = fail_promises(promises, Waiters(video_notes_), ShutdownError)
  /\ events' = <<Event("set_error", Waiters(video_notes_))>>
  /\ UNCHANGED <<close_flag, aborted, next_promise, queries, inflight, subscriptions,
                 results, is_bot, unix_time, notification_settings>>

\* The speech recognition of the cached video notes, from request to shutdown.  The
\* callers keep the preconditions the handlers CHECK.
SpeechFileIds == 1..MaxSpeechFileId
SpeechCandidates ==
  {c \in Candidates : c.file_id \in SpeechFileIds /\ c.duration = 5 /\ c.dimensions = 240}

Next ==
  \/ OnGetVideoNote(SpeechCandidates) /\ ~aborted'
  \/ RegisterVideoNote(SpeechFileIds, Msgs) /\ ~aborted'
  \/ UnregisterVideoNote(SpeechFileIds, Msgs) /\ ~aborted'
  \/ RecognizeSpeech /\ ~aborted'
  \/ \E f \in FileIds : DeliverReply(f)
  \/ PartialPush
  \/ \E s \in Subscriptions : TerminalPush(s)
  \/ BeginShutdown
  \/ TearDown

Spec == InitUser /\ [][Next]_vars

\* Transcription from request to the end of the subscription: video notes arrive
\* without transcription and their messages stay registered.
SubscribeCandidates == {c \in SpeechCandidates : c.transcription_info = NoInfo}

NextSubscribe ==
  \/ OnGetVideoNote(SubscribeCandidates) /\ ~aborted'
  \/ RegisterVideoNote(SpeechFileIds, Msgs) /\ ~aborted'
  \/ RecognizeSpeech /\ ~aborted'
  \/ \E f \in FileIds : DeliverReply(f)
  \/ PartialPush
  \/ \E s \in Subscriptions : TerminalPush(s)
  \/ BeginShutdown

SpecSubscribe == InitUser /\ [][NextSubscribe]_vars

\* The cache alone, with every input the callers can pass.
NextCache ==
  \/ OnGetVideoNote(Candidates)
  \/ DeleteVideoNoteThumbnail(FileIds)
  \/ DupVideoNote(FileIds)
  \/ MergeVideoNotes(0..MaxFileId)

SpecCache == InitUser /\ [][NextCache]_vars

\* The cache filled by create_video_note from what the server sends, beside a video
\* note read from the database.
StoredCandidates == {c \in Candidates : c.duration = 9}

NextCreate ==
  \/ CreateVideoNote(0..MaxFileId)
  \/ OnGetVideoNote(StoredCandidates)
  \/ DeleteVideoNoteThumbnail(FileIds)
  \/ DupVideoNote(FileIds)
  \/ MergeVideoNotes(FileIds)

SpecCreate == InitUser /\ [][NextCreate]_vars

\* Video notes duplicated while their speech is recognized: every state of a
\* TranscriptionInfo is there to be copied.
NextDup ==
  \/ OnGetVideoNote(SpeechCandidates) /\ ~aborted'
  \/ RegisterVideoNote(SpeechFileIds, Msgs) /\ ~aborted'
  \/ RecognizeSpeech /\ ~aborted'
  \/ \E f \in FileIds : DeliverReply(f)
  \/ DupVideoNote(FileIds) /\ ~aborted'

SpecDup == InitUser /\ [][NextDup]_vars

\* The cache from construction to destruction.
NextLife ==
  \/ OnGetVideoNote(Candidates)
  \/ DeleteVideoNoteThumbnail(FileIds)
  \/ DupVideoNote(FileIds)
  \/ MergeVideoNotes(FileIds)
  \/ BeginShutdown
  \/ TearDown

SpecLife == InitUser /\ [][NextLife]_vars

\* The messages of several video notes, told of the transcriptions that are requested
\* and of those that come with a video note.
NotifyCandidates ==
  {c \in Candidates : is_valid(c.file_id) /\ c.duration = 5 /\ c.dimensions = 240}

NextNotify ==
  \/ OnGetVideoNote(NotifyCandidates) /\ ~aborted'
  \/ RegisterVideoNote(FileIds, Msgs) /\ ~aborted'
  \/ UnregisterVideoNote(FileIds, Msgs) /\ ~aborted'
  \/ RecognizeSpeech /\ ~aborted'

SpecNotify == InitUser /\ [][NextNotify]_vars

\* The registry beside the cache, with every input the callers can pass.
RegistryCandidates == {c \in Candidates : c.transcription_info = NoInfo /\ c.dimensions = 240}

NextRegistry ==
  \/ OnGetVideoNote(RegistryCandidates)
  \/ MergeVideoNotes(FileIds)
  \/ RegisterVideoNote(0..MaxFileId, AllMsgs)
  \/ UnregisterVideoNote(0..MaxFileId, AllMsgs)

SpecRegistry == Init /\ [][NextRegistry]_vars

\* A video note under recognition and one that never is.
InterleaveFileIds == {1, MaxFileId}

\* Transcription updates queued between every other operation of the manager; the
\* callers keep the preconditions the other operations CHECK.

NextInterleave ==
  \/ OnGetVideoNote(SpeechCandidates) /\ ~aborted'
  \/ DeleteVideoNoteThumbnail(InterleaveFileIds) /\ ~aborted'
  \/ DupVideoNote(InterleaveFileIds) /\ ~aborted'
  \/ MergeVideoNotes(InterleaveFileIds) /\ ~aborted'
  \/ RegisterVideoNote(SpeechFileIds, {1}) /\ ~aborted'
  \/ UnregisterVideoNote(SpeechFileIds, {1}) /\ ~aborted'
  \/ RecognizeSpeech /\ ~aborted'
  \/ \E f \in SpeechFileIds : DeliverReply(f)
  \/ PartialPush
  \/ \E s \in Subscriptions : TerminalPush(s)

SpecInterleave == InitUser /\ [][NextInterleave]_vars

\* A message is registered for the video note of its content, which the callers got
\* from on_get_video_note, dup_video_note or merge_video_notes.
RegisterCachedVideoNote(M) ==
  \E f \in FileIds, m \in M :
    Running /\ ~get_video_note(f).is_null /\ Call(register_video_note(f, m))

\* The registry of the messages whose content is a cached video note, beside every
\* operation on the cache.
NextOwned ==
  \/ OnGetVideoNote(SpeechCandidates) /\ ~aborted'
  \/ DeleteVideoNoteThumbnail(InterleaveFileIds) /\ ~aborted'
  \/ DupVideoNote(InterleaveFileIds) /\ ~aborted'
  \/ MergeVideoNotes(InterleaveFileIds) /\ ~aborted'
  \/ RegisterCachedVideoNote({1}) /\ ~aborted'
  \/ UnregisterVideoNote(FileIds, {1}) /\ ~aborted'
  \/ RecognizeSpeech
  \/ RateSpeechRecognition

SpecOwned == InitUser /\ [][NextOwned]_vars

\* The clock: a fresh one, today's, and the last seconds an int32 can hold.
UnixTimes ==
  {0, 1, 1700000000, INT32_MAX - MAX_PRECISE_MUTE_FOR - 1, INT32_MAX - MAX_PRECISE_MUTE_FOR,
   INT32_MAX - 86400, INT32_MAX - 2, INT32_MAX - 1, INT32_MAX}

\* The mute_for a caller may pass: any int32.
MuteFors ==
  {INT32_MIN, -1, 0, 1, 2, 86400, 86401, MAX_PRECISE_MUTE_FOR - 1, MAX_PRECISE_MUTE_FOR,
   MAX_PRECISE_MUTE_FOR + 1, INT32_MAX - 1700000000 - 1, INT32_MAX - 1700000000,
   INT32_MAX - 1, INT32_MAX}

\* Time passes.
Tick ==
  /\ \E t \in UnixTimes : t > unix_time /\ unix_time' = t
  /\ UNCHANGED <<video_notes_, video_note_messages_, message_video_notes_, close_flag,
                 destroyed, aborted, promises, next_promise, queries, inflight,
                 subscriptions, events, results, is_bot, notification_settings>>

\* New notification settings of a chat are built from the caller's.
GetDialogNotificationSettings ==
  /\ \E use_default_mute_for \in BOOLEAN, mute_for \in MuteFors :
       notification_settings' \in
         get_dialog_notification_settings(use_default_mute_for, mute_for)
  /\ UNCHANGED <<video_notes_, video_note_messages_, message_video_notes_, close_flag,
                 destroyed, aborted, promises, next_promise, queries, inflight,
                 subscriptions, events, results, is_bot, unix_time>>

NextMute ==
  \/ Tick
  \/ GetDialogNotificationSettings

\* The clock shows any time; no settings have been built.
InitMute ==
  /\ InitManagers
  /\ is_bot = FALSE
  /\ unix_time \in UnixTimes
  /\ notification_settings = DefaultSettings

SpecMute == InitMute /\ [][NextMute]_vars

\* The payments queries.
NextPay ==
  \/ GetPaymentForm
  \/ SendPaymentForm
  \/ \E p \in PromiseIds : DeliverQueryReply(p)
  \/ \E p \in PromiseIds : UpdatesProcessed(p)
  \/ BeginShutdown

SpecPay == InitUser /\ [][NextPay]_vars

\* The Queries that fail: payment forms and payment receipts, with and without a
\* dialog.
NextReport ==
  \/ GetPaymentForm
  \/ GetPaymentReceipt
  \/ \E p \in PromiseIds : DeliverQueryReply(p)

SpecReport == InitUser /\ [][NextReport]_vars

\* The requests that validate what the caller passes before anything is sent.
NextValidate ==
  \/ GetPaymentForm
  \/ SendPaymentFormWith(Strings)
  \/ AnswerShippingQuery
  \/ AnswerPreCheckoutQuery
  \/ ValidateOrderInfo
  \/ GetBankCardInfo

SpecValidate == InitUser /\ [][NextValidate]_vars

\* Payment forms and receipts with the amounts the server sends in them.
NextData ==
  \/ GetPaymentForm
  \/ GetPaymentReceipt
  \/ \E p \in PromiseIds : \E reply \in DataReplies(Lookup(queries, p, Query("", NoDialog)).kind) : DeliverData(p, reply)

SpecData == InitUser /\ [][NextData]_vars

\* Several Queries outstanding, answered in any order.
NextOrder ==
  \/ GetPaymentForm
  \/ ValidateOrderInfoWith({NullOrderInfo})
  \/ \E p \in PromiseIds : \E reply \in OrderReplies(Lookup(queries, p, Query("", NoDialog)).kind) : DeliverData(p, reply)

SpecOrder == InitUser /\ [][NextOrder]_vars

\* Requests of every kind under fair delivery: speech recognition and its rating, and
\* a payments Query.  A reply that is due arrives, a subscription ends with a final
\* update or an error, and a manager that is closing is destroyed.
NextAll ==
  \/ Next
  \/ RateSpeechRecognition /\ ~aborted'
  \/ GetPaymentForm
  \/ \E p \in PromiseIds : DeliverQueryReply(p)

Fairness ==
  /\ \A f \in FileIds : WF_vars(DeliverReply(f))
  /\ \A s \in Subscriptions : WF_vars(TerminalPush(s))
  /\ \A p \in PromiseIds : WF_vars(DeliverQueryReply(p))
  /\ WF_vars(TearDown)

FairSpec == InitUser /\ [][NextAll]_vars /\ Fairness

\* ------------------------------------------------------------- claims

\* C1: the promise of every payments Query is resolved at most once and as its state
\* says: a Pending Query has resolved nothing, a Failed or Cancelled one has rejected
\* once, a Completed one has fulfilled once (or has handed its promise to the updates
\* of the payment, which fulfil it once); and a Query that is Completed, Failed or
\* Cancelled never changes state and its resolved promise never changes again.
C1_ResolvedExactlyOnce ==
  /\ [](\A p \in DOMAIN queries :
          LET q == queries[p]
          IN /\ Len(promises[p]) <= 1
             /\ q.state = "Pending" => promises[p] = <<>>
             /\ q.state \in {"Failed", "Cancelled"} =>
                  Len(promises[p]) = 1 /\ promises[p][1].res = "error"
             /\ q.state = "Completed" =>
                  promises[p] = IF q.in_updates THEN <<>> ELSE <<Value>>)
  /\ [][\A p \in DOMAIN queries :
          queries[p].state \in {"Completed", "Failed", "Cancelled"} =>
            /\ queries'[p].state = queries[p].state
            /\ promises[p] # <<>> => promises'[p] = promises[p]]_vars

\* A Query failed by a payload with an invalid seller beside one fulfilled after the
\* updates of its payment were processed.
C1_Witness ==
  \E p \in DOMAIN queries, r \in DOMAIN queries :
    /\ queries[p].kind = "GetPaymentForm" /\ queries[p].state = "Failed"
    /\ promises[p] = <<Error("InvalidData")>>
    /\ queries[r].kind = "SendPaymentForm" /\ queries[r].state = "Completed"
    /\ ~queries[r].in_updates /\ promises[r] = <<Value>>

\* C2: merge_video_notes(h1, h2) with both handles cached leaves get(h2) with the
\* content of get(h1), and every message registered under h2 registered under h1.
C2_MergeUnifies ==
  [][\A h1 \in FileIds, h2 \in FileIds :
       (/\ h1 # h2
        /\ ~get_video_note(h1).is_null
        /\ ~get_video_note(h2).is_null
        /\ Running
        /\ Call(merge_video_notes(h1, h2)))
       => /\ video_notes_'[h2].duration = video_notes_'[h1].duration
          /\ video_notes_'[h2].dimensions = video_notes_'[h1].dimensions
          /\ video_notes_'[h2].waveform = video_notes_'[h1].waveform
          /\ video_notes_'[h2].minithumbnail = video_notes_'[h1].minithumbnail
          /\ \A m \in Lookup(video_note_messages_, h2, {}) :
               /\ m \in Lookup(video_note_messages_', h1, {})
               /\ Lookup(message_video_notes_', m, InvalidFileId) = h1]_vars

\* C3: while no CHECK has failed, a message is in the set of a handle in
\* video_note_messages_ exactly when message_video_notes_ maps it to that handle.
C3_RegistryMapsAgree ==
  ~aborted =>
    /\ \A h \in DOMAIN video_note_messages_ : \A c \in video_note_messages_[h] :
         c \in DOMAIN message_video_notes_ /\ message_video_notes_[c] = h
    /\ \A c \in DOMAIN message_video_notes_ :
         /\ message_video_notes_[c] \in DOMAIN video_note_messages_
         /\ c \in video_note_messages_[message_video_notes_[c]]

\* Two messages are registered under different handles after a third registration
\* was undone.
C3_Witness ==
  /\ ~aborted
  /\ DOMAIN message_video_notes_ = {1, 2}
  /\ message_video_notes_[1] # message_video_notes_[2]
  /\ ~is_bot

\* C4: when a final update (pending = false) for a video note is processed before
\* closing, its transcription is Final with the text of the update, every promise that
\* waited is fulfilled, once, no promise waits any more, and the messages of the video
\* note are told that the transcription is finalized, not that it changed.
C4_FinalUpdate ==
  [][\A f \in FileIds, text \in Texts :
       (/\ ~close_flag
        /\ \/ DeliverFirst(f, Update(FALSE, text, ServerTranscriptionId))
           \/ \E s \in subscriptions :
                s.file_id = f /\ DeliverPush(s, Update(FALSE, text, s.transcription_id)))
       => LET waiters == get_video_note(f).transcription_info.waiters
              info == video_notes_'[f].transcription_info
          IN /\ info.phase = "Final"
             /\ info.text = text
             /\ info.waiters = {}
             /\ \A p \in PromiseIds :
                  promises'[p] = IF p \in waiters THEN <<Value>> ELSE promises[p]
             /\ Len(events') >= 1
             /\ events'[1] = Event("finalized", Lookup(video_note_messages_, f, {}))
             /\ \A i \in DOMAIN events' : events'[i].ev # "changed"]_vars

\* Two promises that waited are fulfilled by one final update, and both messages of
\* the video note are told.
C4_Witness ==
  /\ events = <<Event("finalized", {1, 2}), Event("set_value", {1, 2})>>
  /\ get_video_note(1).transcription_info.phase = "Final"
  /\ get_video_note(1).transcription_info.text = "ab"
  /\ promises[1] = <<Value>> /\ promises[2] = <<Value>>

\* C5: a video note never has more than one transcription request in flight (a reply
\* that is due or an open subscription); a request for a video note that has no
\* transcription yet transmits one request and leaves it Requested, and a request for
\* one that is Requested or Partial transmits nothing and only adds its promise to
\* the promises that wait.
C5_OneRequestInFlight ==
  /\ [](\A f \in FileIds :
          inflight[f] + Cardinality({s \in subscriptions : s.file_id = f}) <= 1)
  /\ [][\A m \in DOMAIN message_video_notes_ :
          (Running /\ HasPromise /\ CallWithPromise(recognize_speech(m, next_promise)))
          => LET f == message_video_notes_[m]
                 old == get_video_note(f).transcription_info
                 new == video_notes_'[f].transcription_info
             IN /\ old.phase \in {"Null", "None"} =>
                     /\ Sends(events', f) = 1
                     /\ inflight'[f] = inflight[f] + 1
                     /\ new.phase = "Requested"
                     /\ new.waiters = {next_promise}
                /\ old.phase \in {"Requested", "Partial"} =>
                     /\ events' = <<>>
                     /\ inflight' = inflight
                     /\ subscriptions' = subscriptions
                     /\ promises' = promises
                     /\ new = [old EXCEPT !.waiters = @ \cup {next_promise}]]_vars

\* A second request has joined a transcription that is Partial: both promises wait
\* and the one subscription is all that is in flight.
C5_Witness ==
  /\ get_video_note(1).transcription_info.phase = "Partial"
  /\ get_video_note(1).transcription_info.waiters = {1, 2}
  /\ inflight[1] = 0
  /\ Cardinality(subscriptions) = 1
  /\ events = <<>>

\* C6: on_get_video_note with replace = false for a handle that is cached changes
\* nothing (no member, no promise, no call to a collaborator) and returns the handle,
\* so a cached duration of 5 survives a candidate with duration 9.
C6_NoReplaceKeepsCached ==
  \A c \in Candidates :
    (is_valid(c.file_id) /\ ~get_video_note(c.file_id).is_null)
      => on_get_video_note(c, FALSE) = [Same EXCEPT !.ret = c.file_id]

\* A video note with duration 5 is cached and a candidate with duration 9 comes for
\* its handle.
C6_Witness ==
  \E c \in Candidates :
    /\ c.duration = 9
    /\ ~get_video_note(c.file_id).is_null
    /\ get_video_note(c.file_id).duration = 5
    /\ on_get_video_note(c, FALSE).vn[c.file_id].duration = 5

\* C7: on_get_video_note with replace = true for a handle that is cached leaves the
\* cached duration, dimensions, waveform, minithumbnail and thumbnail equal to the
\* candidate's; for a handle that is not cached it inserts the candidate as it is,
\* with replace true or false.
C7_ReplaceTakesCandidate ==
  \A c \in Candidates :
    is_valid(c.file_id) =>
      IF get_video_note(c.file_id).is_null
        THEN \A replace \in BOOLEAN :
               on_get_video_note(c, replace) =
                 [Same EXCEPT !.vn = Put(video_notes_, c.file_id, c), !.ret = c.file_id]
        ELSE LET w == on_get_video_note(c, TRUE).vn[c.file_id]
             IN /\ w.duration = c.duration
                /\ w.dimensions = c.dimensions
                /\ w.waveform = c.waveform
                /\ w.minithumbnail = c.minithumbnail
                /\ w.thumbnail = c.thumbnail

\* A cached video note differs from a candidate for its handle in dimensions,
\* waveform, minithumbnail and thumbnail, and not in duration; another handle is
\* not cached.
C7_Witness ==
  /\ \E c \in Candidates :
       LET v == get_video_note(c.file_id)
       IN /\ ~v.is_null
          /\ v.duration = c.duration
          /\ v.dimensions # c.dimensions
          /\ v.waveform # c.waveform
          /\ v.minithumbnail # c.minithumbnail
          /\ v.thumbnail # c.thumbnail
  /\ \E f \in FileIds : f \notin DOMAIN video_notes_

C10_LateUpdateIgnored ==
  [][(/\ close_flag
      /\ \/ \E f \in FileIds : DeliverReply(f)
         \/ \E s \in subscriptions :
              \E r \in Updates(s.transcription_id) : DeliverPush(s, r))
     => /\ UNCHANGED <<video_notes_, video_note_messages_, message_video_notes_,
                       promises, queries>>
        /\ events' = <<>>
        /\ subscriptions' \subseteq subscriptions]_vars

\* Closing has begun, the reply to a request has been dropped: the transcription is
\* still Requested, its promise still waits, and nothing is in flight any more.
C10_Witness ==
  /\ close_flag
  /\ ~destroyed
  /\ \E f \in DOMAIN video_notes_ :
       /\ video_notes_[f].transcription_info.phase = "Requested"
       /\ video_notes_[f].transcription_info.waiters # {}
       /\ \A p \in video_notes_[f].transcription_info.waiters : promises[p] = <<>>
       /\ inflight[f] = 0
       /\ events = <<>>

\* C11: once shutdown has begun (the close flag is set) no handler changes the cache
\* or the registry: until the manager is destroyed, video_notes_,
\* video_note_messages_ and message_video_notes_ stay as they are.
C11_NoMutationAfterShutdown ==
  [][(close_flag /\ ~destroyed')
       => UNCHANGED <<video_notes_, video_note_messages_, message_video_notes_>>]_vars

\* C12: merge_video_notes(new_id, old_id) with both handles cached and different
\* thumbnails calls the file manager's merge on the two thumbnails, beside the merge
\* of the two handles.
C12_MergeMergesThumbnails ==
  [][\A new_id \in FileIds, old_id \in FileIds :
       (/\ new_id # old_id
        /\ ~get_video_note(new_id).is_null
        /\ ~get_video_note(old_id).is_null
        /\ get_video_note(new_id).thumbnail # get_video_note(old_id).thumbnail
        /\ Running
        /\ Call(merge_video_notes(new_id, old_id)))
       => /\ \E i \in DOMAIN events' : events'[i] = MergeEvent(new_id, old_id)
          /\ \E i \in DOMAIN events' :
               events'[i] = MergeEvent(get_video_note(new_id).thumbnail,
                                       get_video_note(old_id).thumbnail)]_vars

\* C13: dup_video_note(new_id, old_id), with old_id cached and new_id not, creates the
\* video note of new_id with the duration, dimensions, waveform and minithumbnail of
\* the old one, leaves every other cached video note (the old one too) as it was, and
\* gives the new video note the thumbnail the file manager's dup_file_id returns for
\* the old thumbnail, which is not the old thumbnail itself.
C13_DupCopiesFields ==
  \A new_id \in FileIds, old_id \in FileIds :
    (~get_video_note(old_id).is_null /\ get_video_note(new_id).is_null)
      => LET old == get_video_note(old_id)
             d == dup_video_note(new_id, old_id)
         IN /\ ~d.ab
            /\ d.ret = new_id
            /\ ~d.vn[new_id].is_null
            /\ d.vn[new_id].file_id = new_id
            /\ d.vn[new_id].duration = old.duration
            /\ d.vn[new_id].dimensions = old.dimensions
            /\ d.vn[new_id].waveform = old.waveform
            /\ d.vn[new_id].minithumbnail = old.minithumbnail
            /\ d.ev = <<Event("dup_file_id", {old.thumbnail})>>
            /\ d.vn[new_id].thumbnail = dup_file_id(old.thumbnail)
            /\ is_valid(old.thumbnail) => d.vn[new_id].thumbnail # old.thumbnail
            /\ \A k \in DOMAIN video_notes_ \ {new_id} : d.vn[k] = video_notes_[k]
            /\ DOMAIN d.vn = DOMAIN video_notes_ \cup {new_id}
            /\ d.vnm = video_note_messages_ /\ d.mvn = message_video_notes_

\* dup_video_note has run: the new video note has the fields of the old one and a
\* thumbnail of its own.
C13_Witness ==
  \E new_id \in FileIds, old_id \in FileIds :
    /\ new_id # old_id
    /\ ~aborted
    /\ ~get_video_note(old_id).is_null /\ ~get_video_note(new_id).is_null
    /\ is_valid(get_video_note(old_id).thumbnail)
    /\ events = <<Event("dup_file_id", {get_video_note(old_id).thumbnail})>>
    /\ get_video_note(new_id).thumbnail = dup_file_id(get_video_note(old_id).thumbnail)
    /\ get_video_note(new_id).duration = get_video_note(old_id).duration
    /\ get_video_note(new_id).waveform = get_video_note(old_id).waveform

\* C15: dup_video_note(new_id, old_id) fails its CHECK when old_id is not cached and
\* when new_id is cached, and in both cases leaves every cached video note, the
\* registry and the promises as they were and calls no collaborator.
C15_DupChecksBothHandles ==
  \A new_id \in FileIds, old_id \in FileIds :
    (get_video_note(old_id).is_null \/ ~get_video_note(new_id).is_null)
      => dup_video_note(new_id, old_id) = Abort(Same)

\* One handle is cached and the other is not: duplicating the missing one fails, and
\* so does duplicating onto the cached one.
C15_Witness ==
  \E a \in FileIds, b \in FileIds :
    /\ ~aborted
    /\ ~get_video_note(a).is_null
    /\ get_video_note(b).is_null
    /\ dup_video_note(a, b).ab
    /\ dup_video_note(a, a).ab
    /\ dup_video_note(a, a).vn[a] = video_notes_[a]

C18_BareReplaceKeepsTranscription ==
  \A c \in Candidates :
    (/\ c.transcription_info = NoInfo
     /\ is_valid(c.file_id)
     /\ ~get_video_note(c.file_id).is_null)
      => LET e == on_get_video_note(c, TRUE)
         IN /\ ~e.ab
            /\ e.vn[c.file_id].transcription_info
                 = get_video_note(c.file_id).transcription_info
            /\ e.pr = promises
            /\ e.ev = <<>>

\* A transcription is requested and a promise waits for it when a new video note
\* without TranscriptionInfo, and with other dimensions, comes for the handle: the
\* dimensions are replaced and the request stays.
C18_Witness ==
  \E c \in Candidates :
    /\ c.transcription_info = NoInfo
    /\ c.dimensions = 360
    /\ ~aborted
    /\ ~get_video_note(c.file_id).is_null
    /\ get_video_note(c.file_id).dimensions = 240
    /\ get_video_note(c.file_id).transcription_info.phase = "Requested"
    /\ get_video_note(c.file_id).transcription_info.waiters = {1}
    /\ on_get_video_note(c, TRUE).vn[c.file_id].dimensions = 360
    /\ on_get_video_note(c, TRUE).vn[c.file_id].transcription_info.waiters = {1}

\* The (handle, message) pairs video_note_messages_ holds.
RegisteredPairs(vnm) == {p \in (DOMAIN vnm) \X AllMsgs : p[2] \in vnm[p[1]]}

\* The messages the registry keeps: sent server messages, of a user account.
is_tracked(full_message_id) ==
  ~is_scheduled(full_message_id) /\ is_server(full_message_id) /\ ~is_bot

\* C19 as stated: register_video_note(h, c) fails a CHECK when the pair is registered
\* and unregister_video_note(h, c) fails a CHECK when the pair is not registered,
\* whatever the handle and the message.
C19_RegistryRejects ==
  ~aborted
    => \A h \in 0..MaxFileId, c \in AllMsgs :
         /\ c \in Lookup(video_note_messages_, h, {}) => register_video_note(h, c).ab
         /\ c \notin Lookup(video_note_messages_, h, {}) => unregister_video_note(h, c).ab

\* C19 (amended): register_video_note(h, c) fails a CHECK when the pair is registered,
\* and leaves the registry with the pairs it had; unregister_video_note(h, c) fails a
\* CHECK when the pair is not registered and c is a message the registry keeps (a
\* sent server message, of a user account); for every other message (scheduled,
\* not yet sent, or any message of a bot) both return at once and change nothing.
\* The registry holds every pair once: as many pairs as registered messages.
C19_TrackedRegistryRejects ==
  ~aborted
    => /\ \A h \in 0..MaxFileId, c \in AllMsgs :
            /\ c \in Lookup(video_note_messages_, h, {})
                 => /\ register_video_note(h, c).ab
                    /\ RegisteredPairs(register_video_note(h, c).vnm)
                         = RegisteredPairs(video_note_messages_)
                    /\ register_video_note(h, c).mvn = message_video_notes_
            /\ (c \notin Lookup(video_note_messages_, h, {}) /\ is_tracked(c))
                 => unregister_video_note(h, c).ab
            /\ ~is_tracked(c)
                 => /\ register_video_note(h, c) = Same
                    /\ unregister_video_note(h, c) = Same
       /\ Cardinality(RegisteredPairs(video_note_messages_))
            = Cardinality(DOMAIN message_video_notes_)

\* One message is registered for a video note and another is not: registering the
\* first again fails, and so does unregistering the second.
C19_Witness ==
  \E h \in FileIds, c \in Msgs, d \in Msgs :
    /\ ~aborted
    /\ c \in Lookup(video_note_messages_, h, {})
    /\ d \notin Lookup(video_note_messages_, h, {})
    /\ register_video_note(h, c).ab
    /\ unregister_video_note(h, d).ab
    /\ ~register_video_note(h, d).ab
    /\ ~unregister_video_note(h, c).ab

\* C20: while no CHECK has failed, video_note_messages_ has no entry with an empty
\* set of messages: unregister_video_note erases the entry of a video note when it
\* removes its last message.
C20_NoEmptyEntries ==
  ~aborted
    => /\ \A h \in DOMAIN video_note_messages_ : video_note_messages_[h] # {}
       /\ \A h \in DOMAIN video_note_messages_, c \in Msgs :
            video_note_messages_[h] = {c}
              => /\ ~unregister_video_note(h, c).ab
                 /\ h \notin DOMAIN unregister_video_note(h, c).vnm

\* Two video notes have one message each, and unregistering the message of one erases
\* its entry and leaves the entry of the other.
C20_Witness ==
  \E h \in FileIds, g \in FileIds, c \in Msgs :
    /\ ~aborted
    /\ h # g
    /\ DOMAIN video_note_messages_ = {h, g}
    /\ video_note_messages_[h] = {c}
    /\ Cardinality(video_note_messages_[g]) = 1
    /\ ~unregister_video_note(h, c).ab
    /\ DOMAIN unregister_video_note(h, c).vnm = {g}

\* C21: while no CHECK has failed, a message is in the set of at most one video note,
\* and register_video_note(h2, c) for a message c that is registered for another video
\* note h1 fails a CHECK.
C21_OneVideoNotePerMessage ==
  ~aborted
    => /\ \A h1 \in DOMAIN video_note_messages_, h2 \in DOMAIN video_note_messages_ :
            h1 # h2 => video_note_messages_[h1] \cap video_note_messages_[h2] = {}
       /\ \A h1 \in DOMAIN video_note_messages_, h2 \in 0..MaxFileId, c \in AllMsgs :
            (h1 # h2 /\ c \in video_note_messages_[h1])
              => register_video_note(h2, c).ab

\* Two video notes have a message each, and registering the message of one for the
\* other fails.
C21_Witness ==
  \E h1 \in FileIds, h2 \in FileIds, c \in Msgs, d \in Msgs :
    /\ ~aborted
    /\ h1 # h2 /\ c # d
    /\ c \in Lookup(video_note_messages_, h1, {})
    /\ d \in Lookup(video_note_messages_, h2, {})
    /\ message_video_notes_[c] = h1
    /\ register_video_note(h2, c).ab
    /\ register_video_note(h2, c).mvn[c] = h1

\* C22: register_video_note and unregister_video_note for a scheduled message, for a
\* message that is not a server message, and for any message when the account is a
\* bot, return at once: no CHECK fails, both maps of the registry (and everything
\* else) stay as they are, whatever the handle.
C22_ExcludedMessagesSkipped ==
  \A h \in 0..MaxFileId, c \in AllMsgs :
    (is_scheduled(c) \/ ~is_server(c) \/ is_bot)
      => /\ register_video_note(h, c) = Same
         /\ unregister_video_note(h, c) = Same

\* The account is a bot and a video note is cached: registering a server message for
\* it, and unregistering it, do nothing, and the registry is empty.
C22_Witness ==
  \E h \in FileIds, c \in Msgs :
    /\ is_bot
    /\ ~aborted
    /\ ~get_video_note(h).is_null
    /\ DOMAIN video_note_messages_ = {} /\ DOMAIN message_video_notes_ = {}
    /\ ~register_video_note(h, c).ab /\ DOMAIN register_video_note(h, c).vnm = {}
    /\ ~unregister_video_note(h, c).ab

\* C23 as stated: register_video_note with an invalid handle fails a CHECK for every
\* message, and adds nothing to either map.
C23_InvalidHandleRejected ==
  \A c \in AllMsgs :
    /\ register_video_note(InvalidFileId, c).ab
    /\ register_video_note(InvalidFileId, c).vnm = video_note_messages_
    /\ register_video_note(InvalidFileId, c).mvn = message_video_notes_

\* C23 (amended): register_video_note with an invalid handle fails a CHECK for every
\* message the registry keeps (a sent server message, of a user account); for a
\* scheduled or not yet sent message, and for a bot, it returns before the handle is
\* looked at.  In both cases nothing is added to either map.
C23_InvalidHandleRejectedIfTracked ==
  \A c \in AllMsgs :
    /\ is_tracked(c) => register_video_note(InvalidFileId, c).ab
    /\ ~is_tracked(c) => ~register_video_note(InvalidFileId, c).ab
    /\ register_video_note(InvalidFileId, c).vnm = video_note_messages_
    /\ register_video_note(InvalidFileId, c).mvn = message_video_notes_

\* A user account has a message registered; registering another server message for
\* FileId() fails, and registering a scheduled message for FileId() does nothing.
C23_Witness ==
  \E c \in Msgs :
    /\ ~is_bot
    /\ ~aborted
    /\ DOMAIN message_video_notes_ # {}
    /\ c \notin DOMAIN message_video_notes_
    /\ register_video_note(InvalidFileId, c).ab
    /\ ~register_video_note(InvalidFileId, ScheduledMsg).ab
    /\ register_video_note(InvalidFileId, c).mvn = message_video_notes_

\* C24: on_video_note_transcription_updated(f) and
\* on_video_note_transcription_completed(f) tell the messages registered for f, each
\* one once ("changed" and "finalized"), and no message of another video note; for
\* a video note without messages they tell nobody.  Neither changes the registry.
C24_NotifyRegistered ==
  ~aborted
    => \A f \in 0..MaxFileId :
         LET registered == {c \in DOMAIN message_video_notes_ : message_video_notes_[c] = f}
         IN /\ on_video_note_transcription_updated(f) = Event("changed", registered)
            /\ on_video_note_transcription_completed(f) = Event("finalized", registered)
            /\ f \notin DOMAIN video_note_messages_
                 => /\ on_video_note_transcription_updated(f).targets = {}
                    /\ on_video_note_transcription_completed(f).targets = {}

\* A completed transcription has come with a video note: its one message is told,
\* and the message of the other video note is not.
C24_Witness ==
  \E f \in FileIds, g \in FileIds, c \in Msgs, d \in Msgs :
    /\ ~aborted
    /\ f # g /\ c # d
    /\ Lookup(video_note_messages_, f, {}) = {c}
    /\ Lookup(video_note_messages_, g, {}) = {d}
    /\ Lookup(message_video_notes_, c, InvalidFileId) = f
    /\ Lookup(message_video_notes_, d, InvalidFileId) = g
    /\ events = <<Event("finalized", {c})>>
    /\ get_video_note(f).transcription_info.phase = "Final"

\* C25: recognize_speech for a message whose video note has a completed transcription
\* (Final) fulfils the promise at once, transmits no request, tells no message, and
\* leaves the video note, its text and its waiting promises (none) as they are.
C25_FinalFulfilsAtOnce ==
  \A m \in DOMAIN message_video_notes_, p \in PromiseIds :
    (/\ ~get_video_note(message_video_notes_[m]).is_null
     /\ get_video_note(message_video_notes_[m]).transcription_info.phase = "Final")
      => LET e == recognize_speech(m, p)
         IN /\ ~e.ab
            /\ e.pr = [promises EXCEPT ![p] = Append(@, Value)]
            /\ e.ev = <<Event("set_value", {p})>>
            /\ e.vn = video_notes_
            /\ e.vnm = video_note_messages_ /\ e.mvn = message_video_notes_
            /\ get_video_note(message_video_notes_[m]).transcription_info.waiters = {}

\* The first promise was fulfilled by the final update of the server, and the second,
\* handed in afterwards, at once: nothing is in flight.
C25_Witness ==
  /\ ~aborted
  /\ get_video_note(1).transcription_info.phase = "Final"
  /\ get_video_note(1).transcription_info.text = "ab"
  /\ events = <<Event("set_value", {2})>>
  /\ promises[1] = <<Value>> /\ promises[2] = <<Value>>
  /\ \A f \in FileIds : inflight[f] = 0

\* C26: when an error comes for a video note (as the reply to the request or through
\* the subscription) before closing, every promise that waited is failed with that
\* error, once, no promise waits any more and the transcription is Failed; and
\* recognize_speech for a Failed video note transmits a new request and keeps the new
\* promise waiting.
C26_ErrorFailsWaiters ==
  /\ [][\A f \in FileIds :
          (/\ ~close_flag
           /\ \/ DeliverFirst(f, UpdateError)
              \/ \E s \in subscriptions : s.file_id = f /\ DeliverPush(s, UpdateError))
          => LET waiters == get_video_note(f).transcription_info.waiters
                 info == video_notes_'[f].transcription_info
             IN /\ ~aborted'
                /\ info.phase = "Failed"
                /\ info.waiters = {}
                /\ \A p \in PromiseIds :
                     promises'[p] = IF p \in waiters THEN <<Error(RemoteError)>>
                                                    ELSE promises[p]]_vars
  /\ [](\A m \in DOMAIN message_video_notes_, p \in PromiseIds :
          (/\ ~get_video_note(message_video_notes_[m]).is_null
           /\ get_video_note(message_video_notes_[m]).transcription_info.phase = "Failed")
            => LET f == message_video_notes_[m]
                   e == recognize_speech(m, p)
               IN /\ ~e.ab
                  /\ e.pr = promises
                  /\ e.vn[f].transcription_info.phase = "Requested"
                  /\ e.vn[f].transcription_info.waiters = {p}
                  /\ Sends(e.ev, f) = 1)

\* The first request has failed with the error of the server, and the second request,
\* made afterwards, has been transmitted and waits.
C26_Witness ==
  /\ ~aborted
  /\ promises[1] = <<Error(RemoteError)>>
  /\ promises[2] = <<>>
  /\ get_video_note(1).transcription_info.phase = "Requested"
  /\ get_video_note(1).transcription_info.waiters = {2}
  /\ inflight[1] = 1
  /\ Sends(events, 1) = 1

\* The calls of the last handler that tell messages ev ("changed" or "finalized").
Told(ev_seq, ev) == {i \in DOMAIN ev_seq : ev_seq[i].ev = ev}

\* C27: when a pending update for a video note is processed before closing, its
\* transcription is Partial with the text of the update, no promise is resolved and
\* the promises that waited still wait; the messages of the video note are told once
\* that it changed when the text differs from the text it had, and not at all when
\* it is the same; they are never told that it is finalized.  A partial update that
\* repeats the text of a Partial transcription leaves the video note as it was.
C27_PartialUpdate ==
  [][\A f \in FileIds, text \in Texts :
       (/\ ~close_flag
        /\ \/ DeliverFirst(f, Update(TRUE, text, ServerTranscriptionId))
           \/ \E s \in subscriptions :
                s.file_id = f /\ DeliverPush(s, Update(TRUE, text, s.transcription_id)))
       => LET old_info == get_video_note(f).transcription_info
              info == video_notes_'[f].transcription_info
          IN /\ ~aborted'
             /\ info.phase = "Partial"
             /\ info.text = text
             /\ info.waiters = old_info.waiters
             /\ promises' = promises
             /\ Told(events', "finalized") = {}
             /\ Cardinality(Told(events', "changed"))
                  = IF text # old_info.text THEN 1 ELSE 0
             /\ \A i \in Told(events', "changed") :
                  events'[i] = Event("changed", Lookup(video_note_messages_, f, {}))
             /\ (old_info.phase = "Partial" /\ old_info.text = text)
                  => /\ video_notes_' = video_notes_
                     /\ Told(events', "changed") = {}
             /\ UNCHANGED <<video_note_messages_, message_video_notes_>>]_vars

\* A partial update with a new text has come through the subscription while a
\* promise waits: the message is told of the change and the promise still waits.
C27_Witness ==
  /\ ~aborted
  /\ get_video_note(1).transcription_info.phase = "Partial"
  /\ get_video_note(1).transcription_info.text = "ab"
  /\ get_video_note(1).transcription_info.waiters = {1}
  /\ promises[1] = <<>>
  /\ Lookup(video_note_messages_, 1, {}) # {}
  /\ events = <<Event("changed", Lookup(video_note_messages_, 1, {}))>>

\* C28: before closing, the reply to a transcription request subscribes to the
\* updates of its transcription_id, once, exactly when it is pending (neither an
\* error nor final); an update that comes through the subscription never subscribes.
\* A request has one reply, so it is subscribed for at most once.
C28_SubscribesOnFirstPending ==
  [][/\ \A f \in FileIds, r \in Updates(ServerTranscriptionId) :
          (~close_flag /\ DeliverFirst(f, r))
            => LET subscribing == {i \in DOMAIN events' : events'[i].ev = "subscribe"}
               IN IF ~r.is_error /\ r.pending
                    THEN /\ Cardinality(subscribing) = 1
                         /\ \A i \in subscribing :
                              events'[i] = Event("subscribe", {r.transcription_id})
                         /\ subscriptions'
                              = subscriptions
                                  \cup {[transcription_id |-> r.transcription_id,
                                         file_id |-> f]}
                         /\ inflight'[f] = inflight[f] - 1
                    ELSE subscribing = {} /\ subscriptions' = subscriptions
     /\ \A s \in subscriptions :
          \A r \in Updates(s.transcription_id) :
          DeliverPush(s, r)
            => /\ \A i \in DOMAIN events' : events'[i].ev # "subscribe"
               /\ subscriptions' \subseteq subscriptions]_vars

\* The reply to the request was pending: the messages are told of the text and the
\* updates of the transcription are subscribed to.
C28_Witness ==
  /\ ~aborted
  /\ inflight[1] = 0
  /\ subscriptions = {[transcription_id |-> 1, file_id |-> 1]}
  /\ Len(events) = 2
  /\ events[1].ev = "changed"
  /\ events[2] = Event("subscribe", {1})
  /\ get_video_note(1).transcription_info.phase = "Partial"

\* The cached video notes whose transcription becomes Final in this step.
BecomingFinal ==
  {f \in FileIds : /\ ~get_video_note(f).is_null
                   /\ get_video_note(f).transcription_info.phase # "Final"
                   /\ f \in DOMAIN video_notes_'
                   /\ video_notes_'[f].transcription_info.phase = "Final"}

\* C29: a completed transcription stays: until the manager is destroyed no update, no
\* request and no on_get_video_note changes the phase or the text of a Final video note.
\* The messages of a video note are told that it is finalized in the step in which
\* its transcription becomes Final, once, and in no other step.
C29_FinalIsTerminal ==
  [][/\ \A f \in FileIds :
          (/\ ~get_video_note(f).is_null
           /\ get_video_note(f).transcription_info.phase = "Final"
           /\ ~destroyed')
            => /\ f \in DOMAIN video_notes_'
               /\ video_notes_'[f].transcription_info.phase = "Final"
               /\ video_notes_'[f].transcription_info.text
                    = get_video_note(f).transcription_info.text
     /\ Cardinality(Told(events', "finalized")) = Cardinality(BecomingFinal)
     /\ \A f \in BecomingFinal :
          \E i \in Told(events', "finalized") :
            events'[i] = Event("finalized", Lookup(video_note_messages_, f, {}))]_vars

\* The request failed, and the completed transcription came with the video note
\* afterwards: its message is told once, and the text is the one that came.
C29_Witness ==
  /\ ~aborted
  /\ promises[1] = <<Error(RemoteError)>>
  /\ get_video_note(1).transcription_info.phase = "Final"
  /\ get_video_note(1).transcription_info.text = "a"
  /\ Lookup(video_note_messages_, 1, {}) # {}
  /\ events = <<Event("finalized", Lookup(video_note_messages_, 1, {}))>>

\* The Queries that fail in a step: pending (or just created) before it, failed after.
FailingQueries ==
  {p \in DOMAIN queries' :
     /\ queries'[p].state = "Failed"
     /\ (p \in DOMAIN queries => queries[p].state = "Pending")}

\* The positions of the last handler's rejections of promise p.
Rejections(ev_seq, p) == {i \in Told(ev_seq, "set_error") : ev_seq[i].targets = {p}}

RejectedUnsent(eff) ==
  /\ eff.pr = [promises EXCEPT ![next_promise] = <<Error(ValidationError)>>]
  /\ eff.q = queries
  /\ Told(eff.ev, "send_query") = {}
  /\ eff.res = results

\* What fails the local validation, said of the inputs alone.
BadInvoice(input_invoice) == input_invoice \in {"null", "message_no_access"}
BadCredentials(credentials) == credentials \in {"null", "saved_unclean", "saved_no_password"}
BadPricePart(part) ==
  \/ part.is_null
  \/ UncleanString = part.label
  \/ Less(MAX_AMOUNT, part.amount)
  \/ Less(part.amount, Negate(MAX_AMOUNT))
BadShippingOption(option) ==
  \/ option.is_null
  \/ UncleanString \in {option.id, option.title}
  \/ \E j \in DOMAIN option.price_parts : BadPricePart(option.price_parts[j])

\* C31: a request that fails the local validation (null invoice, inaccessible chat, null
\* credentials, unclean saved credentials identifier, missing temporary password, null
\* shipping option or price part, unclean option string, price amount out of range,
\* unclean order info field) rejects the caller's promise exactly once with a 400
\* error and transmits no Query.
C31_InvalidRequestRejected ==
  (~aborted /\ HasPromise) =>
    /\ \A i \in Invoices : BadInvoice(i) => RejectedUnsent(get_payment_form(i, next_promise))
    /\ \A i \in Invoices, c \in Credentials, oid \in Strings, sid \in Strings :
         (BadInvoice(i) \/ BadCredentials(c))
           => RejectedUnsent(send_payment_form(i, oid, sid, c, next_promise))
    /\ \A options \in ShippingOptionLists, m \in Strings :
         (\E k \in DOMAIN options : BadShippingOption(options[k]))
           => RejectedUnsent(answer_shipping_query(options, m, next_promise))
    /\ \A i \in Invoices, order_info \in OrderInfos :
         (BadInvoice(i) \/ UncleanString \in OrderInfoStrings(order_info))
           => RejectedUnsent(validate_order_info(i, order_info, next_promise))

\* C31 witness: the second request was refused (the first one is on its way): its
\* promise holds the one 400 error, no Query was made for it, only set_error was called.
C31_Witness ==
  /\ promises[2] = <<Error(ValidationError)>>
  /\ 1 \in DOMAIN queries
  /\ 2 \notin DOMAIN queries
  /\ queries[1].kind = "SetBotShippingAnswer"
  /\ queries[1].state = "Pending"
  /\ events = <<Event("set_error", {2})>>

\* The Query a promise belongs to, if there is one.
QueryOf(p) == Lookup(queries, p, Query("", NoDialog))

\* C32: with several Queries outstanding a reply may arrive for any of them, and the
\* reply for Query p resolves the promise of p alone, with what that reply carries (its
\* error, or the object converted from its payload); the promise, result and state of
\* every other Query stay as they are.  While Queries are outstanding a new call is
\* accepted: it makes its own Query and leaves the others alone.
C32_RepliesCorrelate ==
  /\ [][\A p \in PromiseIds :
          \A reply \in OrderReplies(QueryOf(p).kind) :
            DeliverData(p, reply)
              => /\ \A o \in PromiseIds \ {p} :
                      /\ promises'[o] = promises[o]
                      /\ results'[o] = results[o]
                      /\ o \in DOMAIN queries => queries'[o] = queries[o]
                 /\ IF reply.kind = "error"
                      THEN promises'[p] = <<Error(RemoteError)>> /\ results'[p] = NoResult
                      ELSE /\ promises'[p] = <<Value>>
                           /\ results'[p].invoice.prices = reply.invoice.prices
                           /\ queries'[p].state = "Completed"]_vars
  /\ [](\A i \in {"message", "name"} :
          (~aborted /\ HasPromise)
            => LET eff == get_payment_form(i, next_promise)
               IN /\ eff.q = Put(queries, next_promise,
                                 Query("GetPaymentForm", get_input_invoice_info(i).dialog_id))
                  /\ eff.pr = promises
                  /\ eff.res = results)

\* C32 witness: an order info validation and a payment form were requested and the reply
\* to the second came first: the second promise holds its own form while the first waits.
C32_Witness ==
  /\ DOMAIN queries = {1, 2}
  /\ queries[1].kind = "ValidateRequestedInfo" /\ queries[1].state = "Pending"
  /\ queries[2].kind = "GetPaymentForm" /\ queries[2].state = "Completed"
  /\ promises[1] = <<>> /\ results[1] = NoResult
  /\ promises[2] = <<Value>>
  /\ results[2].invoice = Invoice(<<Int64(0, 5)>>, Zero, <<>>)

\* The Queries whose reply is due, and the payloads that may answer one of them.
AwaitingReply == {p \in DOMAIN queries : queries[p].reply_due /\ queries[p].state = "Pending"}
Payloads(p) == {reply \in DataReplies(queries[p].kind) : reply.kind = "payload"}

\* The range check, said of the amount alone, and 2^40 and -2^40.
InRange(amount) == ~Less(MAX_AMOUNT, amount) /\ ~Less(amount, Negate(MAX_AMOUNT))
TwoTo40 == Int64(LimbBase, 0)
MinusTwoTo40 == Int64(-LimbBase, 0)

\* C33: a labeled price amount from the server that fails the range check (2^41, -2^41,
\* MAX_AMOUNT + 1, ...) reaches the caller as 2^40 with the sign of the amount, an
\* amount in range reaches the caller unchanged, and either way the Query completes:
\* the promise is fulfilled and holds no error.
C33_LabeledPriceClamped ==
  \A p \in AwaitingReply :
    \A reply \in Payloads(p) :
      LET eff == Td_on_result(p, reply)
          sent == reply.invoice.prices
          got == eff.res[p].invoice.prices
      IN /\ eff.pr[p] = <<Value>>
         /\ eff.q[p].state = "Completed"
         /\ Len(got) = Len(sent)
         /\ \A i \in DOMAIN sent :
              got[i] = IF InRange(sent[i]) THEN sent[i]
                       ELSE IF sent[i].hi < 0 THEN MinusTwoTo40 ELSE TwoTo40

\* C33 witness: a payment form whose price was below the range has been delivered: the
\* promise is fulfilled and the price in it is -2^40.
C33_Witness ==
  \E p \in DOMAIN queries :
    /\ queries[p].kind = "GetPaymentForm"
    /\ queries[p].state = "Completed"
    /\ promises[p] = <<Value>>
    /\ results[p].invoice.prices = <<MinusTwoTo40>>

\* An amount clamped to the signed sentinel when it fails the range check.
Clamped(amount) ==
  IF InRange(amount) THEN amount ELSE IF amount.hi < 0 THEN MinusTwoTo40 ELSE TwoTo40

\* A tip amount as it reaches the caller: 0 unless it is in 0..MAX_AMOUNT.
TipOrZero(amount) == IF InRange(amount) /\ amount.hi >= 0 THEN amount ELSE Zero

CredentialsStrings(credentials) ==
  IF credentials \in {"saved", "saved_unclean", "saved_no_password"}
    THEN {saved_credentials_id(credentials)} ELSE {}

AwaitingUpdate ==
  {f \in FileIds : inflight[f] > 0 \/ \E s \in subscriptions : s.file_id = f}

\* C36: before shutdown, a video note for which a transcription reply or push is queued
\* is cached and has a TranscriptionInfo, whatever on_get_video_note, dup_video_note,
\* merge_video_notes, register_video_note, unregister_video_note and
\* delete_video_note_thumbnail did in between: processing the update, whatever it
\* carries, fails neither of the two CHECKs of on_transcribed_audio_update.
C36_QueuedUpdateFindsVideoNote ==
  (Running /\ ~close_flag) =>
    \A f \in AwaitingUpdate :
      /\ ~get_video_note(f).is_null
      /\ get_video_note(f).transcription_info.phase # "Null"
      /\ \A is_initial \in BOOLEAN, t \in TranscriptionIds :
           \A r \in Updates(t) : ~on_transcribed_audio_update(f, is_initial, r).ab

\* C36 witness: a reply is due for video note 1, which has meanwhile been duplicated
\* and merged into video note 2 and has lost its thumbnail.
C36_Witness ==
  /\ ~aborted
  /\ inflight[1] > 0
  /\ get_video_note(1).transcription_info.phase = "Requested"
  /\ get_video_note(1).thumbnail = InvalidFileId
  /\ ~get_video_note(2).is_null
  /\ events = <<MergeEvent(2, 1)>>

\* The messages a video note is registered for.
RegisteredMessages == DOMAIN message_video_notes_

Resolutions(ev_seq) == {i \in DOMAIN ev_seq : ev_seq[i].ev \in {"set_value", "set_error"}}

\* The calls of a handler are: the messages registered for the video note are all told
\* with the given notification, and the waiters are resolved the given way only after.
ToldThenResolved(eff, file_id, notification, resolution, waiters) ==
  /\ \E j \in DOMAIN eff.ev :
       /\ eff.ev[j] = Event(notification, Lookup(video_note_messages_, file_id, {}))
       /\ \A i \in Resolutions(eff.ev) : j < i
  /\ \A i \in Resolutions(eff.ev) : eff.ev[i] = Event(resolution, waiters)
  /\ Resolutions(eff.ev) # {}

\* C38: when on_transcribed_audio_update gets the final text, every message registered
\* for the video note is told 'finalized' before any waiting promise is fulfilled, and
\* when it gets an error every such message is told 'changed' before any waiting promise
\* is rejected; the video note is Final, respectively Failed, in the state the handler
\* leaves, the waiters being the ones the state change handed over.
C38_ToldBeforeResolved ==
  (Running /\ ~close_flag) =>
    \A f \in AwaitingUpdate, is_initial \in BOOLEAN, t \in TranscriptionIds :
      \A r \in Updates(t) :
        LET eff == on_transcribed_audio_update(f, is_initial, r)
            waiters == get_video_note(f).transcription_info.waiters
            after == Lookup(eff.vn, f, NullVideoNote).transcription_info
        IN /\ r.is_error =>
                /\ ToldThenResolved(eff, f, "changed", "set_error", waiters)
                /\ after.phase = "Failed" /\ after.waiters = {}
           /\ (~r.is_error /\ ~r.pending) =>
                /\ ToldThenResolved(eff, f, "finalized", "set_value", waiters)
                /\ after.phase = "Final" /\ after.text = r.text /\ after.waiters = {}

\* C38 witness: a failed update has been processed for a video note with a registered
\* message and a waiting promise: the message was told, then the promise rejected.
C38_Witness ==
  /\ ~aborted
  /\ Len(events) = 2
  /\ events[1].ev = "changed" /\ events[1].targets # {}
  /\ events[2].ev = "set_error" /\ events[2].targets # {}
  /\ \E f \in FileIds : get_video_note(f).transcription_info.phase = "Failed"

\* The SendPaymentForm Queries.
PaymentQueries == {p \in DOMAIN queries : queries[p].kind = "SendPaymentForm"}

\* td_api::paymentResult
PaymentResult(success, verification_url) ==
  Result("paymentResult", EmptyInvoice, Zero, success, verification_url)

\* C39: a payment result reply leaves the promise of SendPaymentFormQuery unresolved
\* and hands it to on_get_updates; the promise is fulfilled with success = true and no
\* URL when the updates have been processed.  A verification-needed reply fulfils the
\* promise at once with success = false and the verification URL.  Either way the
\* promise is resolved at most once, and it carries success = true only once the
\* updates have been processed.
C39_PaidAfterUpdates ==
  ~aborted =>
    \A p \in PaymentQueries :
      /\ Len(promises[p]) <= 1
      /\ results[p].success =>
           /\ queries[p].state = "Completed" /\ ~queries[p].in_updates
           /\ promises[p] = <<Value>>
      /\ queries[p].state = "Pending" =>
           \A reply \in Replies("SendPaymentForm") :
             LET eff == Td_on_result(p, reply)
             IN /\ (reply.kind = "payload" /\ ~reply.verification_needed) =>
                     /\ eff.pr[p] = <<>> /\ eff.res[p] = NoResult
                     /\ eff.q[p].in_updates
                     /\ eff.ev = <<Event("on_get_updates", {p})>>
                /\ (reply.kind = "payload" /\ reply.verification_needed) =>
                     /\ eff.pr[p] = <<Value>>
                     /\ eff.res[p] = PaymentResult(FALSE, reply.url)
                     /\ reply.url # ""
                     /\ ~eff.q[p].in_updates
      /\ queries[p].in_updates =>
           LET eff == SendPaymentFormQuery_updates_promise(Same, p)
           IN /\ promises[p] = <<>>
              /\ eff.pr[p] = <<Value>>
              /\ eff.res[p] = PaymentResult(TRUE, "")
              /\ ~eff.q[p].in_updates

\* C39 witness: one payment was fulfilled with success once its updates were
\* processed, another was fulfilled with the verification URL.
C39_Witness ==
  \E p \in PaymentQueries, r \in PaymentQueries :
    /\ results[p] = PaymentResult(TRUE, "") /\ promises[p] = <<Value>>
    /\ results[r] = PaymentResult(FALSE, "verification_url") /\ promises[r] = <<Value>>
    /\ events = <<Event("set_value", {p})>>

\* C40: with a non-negative current time get_mute_until has no signed overflow: a
\* mute_for of 0 or less gives 0; a mute_for above 366 days, or of at least INT32_MAX
\* minus the current time, gives INT32_MAX; any other mute_for gives mute_for plus the
\* current time, which is after the current time and below INT32_MAX.
C40_MuteUntilInRange ==
  unix_time >= 0 =>
    /\ \A mute_for \in MuteFors :
         LET r == get_mute_until(mute_for)
         IN /\ ~r.overflow
            /\ r.value \in 0..INT32_MAX
            /\ IF mute_for <= 0 THEN r.value = 0
               ELSE IF mute_for > MAX_PRECISE_MUTE_FOR \/ mute_for >= INT32_MAX - unix_time
                 THEN r.value = INT32_MAX
               ELSE /\ r.value = mute_for + unix_time
                    /\ r.value > unix_time
                    /\ r.value < INT32_MAX
    /\ notification_settings.mute_until \in 0..INT32_MAX

\* C40 witness: a day before the last second an int32 can hold a chat is muted until
\* that second, which only a mute_for of a day or more gives: the sum would not fit.
C40_Witness ==
  /\ unix_time = INT32_MAX - 86400
  /\ ~notification_settings.use_default_mute_until
  /\ notification_settings.mute_until = INT32_MAX

====
